---- MODULE Spec2Model ----
(***************************************************************************)
(* Model of the cover rendering pipeline of the assembly-line application: *)
(* app/render.py (apply_background, _draw_gradient, _resize_fit,           *)
(* place_slot, draw_text_block and its wrap_lines, compose_cover,          *)
(* render_to_file, build_preview), app/models.py (load_template_from_json, *)
(* render_input_from_row), the registry and template_to_dict of           *)
(* app/templates.py, and CoverApp.run_batch and the TemplateEditor of      *)
(* app/main.py.                                                            *)
(*                                                                         *)
(* Strings that the code inspects (strip, split, lower, startswith,        *)
(* truthiness) are sequences of one-character strings.  Dictionary keys of *)
(* the rendering pipeline are atomic.  A raster is the sequence of layers  *)
(* composited onto it, oldest first; where pixels matter it is a function  *)
(* from pixel positions to RGBA values.  Python floats are binary64.       *)
(*                                                                         *)
(* Spec and SpecBatch follow a render and a batch; SpecWrap, SpecDraw,     *)
(* SpecGradient, SpecFit, SpecSlot, SpecPreview, SpecLoad, SpecReload and  *)
(* SpecRow each follow one call of one function, whose arguments are in    *)
(* call and whose locals are in ret; SpecEditor follows a session of the   *)
(* template editor, whose state is in ret.                                 *)
(***************************************************************************)
EXTENDS Integers, Sequences, FiniteSets, TLC

\* ------------------------------------------------------------------ bounds
MaxSlots == 2
MaxTexts == 2
MaxRows == 2
MaxWidth == 15      \* pixels: widths of source images and target boxes
MaxHeight == 3      \* pixels: heights of source images and target boxes
MaxStops == 2       \* stops of a gradient background
MaxCols == 2        \* key-addressed columns of a CSV row
MaxLen == 6         \* characters in a text content string
MaxOps == 5         \* handler calls of one editor session

\* ----------------------------------------------------------- string values
\* Python None, where a str is optional (RenderInput.background_path, dict.get).
None == <<"<None>">>

\* bool(value) of an Optional[str]
Truthy(s) == s # None /\ s # <<>>

RECURSIVE LStrip(_)
LStrip(s) == IF Len(s) > 0 /\ Head(s) = " " THEN LStrip(Tail(s)) ELSE s

RECURSIVE RStrip(_)
RStrip(s) ==
    IF Len(s) > 0 /\ s[Len(s)] = " " THEN RStrip(SubSeq(s, 1, Len(s) - 1)) ELSE s

\* str.strip()
Strip(s) == RStrip(LStrip(s))

\* str.startswith(c) for a one-character prefix
StartsWith(s, c) == Len(s) > 0 /\ s[1] = c

\* a lookup that falls back to another entry when the key is missing
DictGetLoose(d, k, default) ==
    IF k \in DOMAIN d THEN d[k]
    ELSE IF DOMAIN d # {} THEN d[CHOOSE x \in DOMAIN d : TRUE]
    ELSE default

\* dict.get(key, default) on a dict that may be None or empty
DictGet(d, k, default) == IF k \in DOMAIN d THEN d[k] ELSE default

\* ---------------------------------------------------------- the file system
\* The files the renderer reads: images, a file that is no image, no file.
ImagePool == << <<"g">>, <<"h">>, <<"i">> >>
GoodPng == ImagePool[1]
BadPng == <<"b">>
NoFile == <<"n">>
Images == {ImagePool[i] : i \in DOMAIN ImagePool}

\* Path(p).exists()
Exists(p) == p \in Images \cup {BadPng}

\* Image.open(p).convert("RGBA") returns an image instead of raising
ImageOpens(p) == p \in Images

\* ------------------------------------------------------------------ layers
Layer(op, key, src, round, text, color) ==
    [op |-> op, key |-> key, src |-> src, round |-> round, text |-> text,
     color |-> color]

NoRound == <<0, 0, 0, 0>>

\* ---------------------------------------------------------------- templates
SlotKeyPool == <<"s1", "s2", "s3">>
TextKeyPool == <<"t1", "t2", "t3">>

\* Slot(key, box, radius, radii): radii = <<>> is None
SlotPool ==
    <<[key |-> "s1", radius |-> 8, radii |-> <<>>],
      [key |-> "s2", radius |-> 0, radii |-> <<1, 2, 3, 4>>],
      [key |-> "s3", radius |-> 6, radii |-> <<6, 6, 6, 6>>]>>

Black == <<"#", "0">>
Red == <<"#", "f">>

TextPool ==
    <<[key |-> "t1", style |-> [color |-> Black]],
      [key |-> "t2", style |-> [color |-> Black]],
      [key |-> "t3", style |-> [color |-> Black]]>>

Backgrounds ==
    {[kind |-> "color", value |-> <<"#", "f">>],
     [kind |-> "gradient", value |-> <<"#", "f">>],
     [kind |-> "image", value |-> GoodPng],
     [kind |-> "image", value |-> BadPng],
     [kind |-> "image", value |-> NoFile],
     [kind |-> "image", value |-> <<>>]}

TemplateOf(bg, ns, nt) ==
    [key |-> <<"k">>, background |-> bg, slots |-> SubSeq(SlotPool, 1, ns),
     texts |-> SubSeq(TextPool, 1, nt)]

Templates ==
    {TemplateOf(bg, ns, nt) : bg \in Backgrounds, ns \in 0..MaxSlots, nt \in 0..MaxTexts}

\* ------------------------------------------------------------ render inputs
SlotKeys == {SlotKeyPool[i] : i \in 1..MaxSlots}
TextKeys == {TextKeyPool[i] : i \in 1..MaxTexts}
ContentPool == << <<"a">>, <<"b">>, <<"c">> >>

EmptyDict == [k \in {} |-> <<>>]

\* slot_paths: every slot bound to its image, or one slot unbound, bound to "",
\* to a file that is no image, or to a file that does not exist
AllBound == [k \in SlotKeys |-> ImagePool[CHOOSE i \in 1..MaxSlots : SlotKeyPool[i] = k]]

SlotPathMaps ==
    {AllBound}
    \cup {[AllBound EXCEPT ![k] = v] : k \in SlotKeys, v \in {<<>>, BadPng, NoFile}}
    \cup {[j \in SlotKeys \ {k} |-> AllBound[j]] : k \in SlotKeys}

\* texts: any of the text keys bound, each to its own content
TextMaps ==
    {[k \in ks |-> ContentPool[CHOOSE i \in 1..MaxTexts : TextKeyPool[i] = k]] :
        ks \in SUBSET TextKeys}

\* text_colors: none, or the first text key with a "#..." colour (padded) or
\* with a colour name, or the last text key with a "#..." colour
TextColorMaps ==
    {EmptyDict, (TextKeyPool[1] :> <<" ", "#", "f">>), (TextKeyPool[1] :> <<"r">>),
     (TextKeyPool[MaxTexts] :> <<"#", "f">>)}

BackgroundPaths == {None, ImagePool[3], BadPng, NoFile}

RenderInputs ==
    [template_key : {<<"k">>}, output_name : {<<"o">>},
     background_path : BackgroundPaths, texts : TextMaps,
     text_colors : TextColorMaps, slot_paths : SlotPathMaps]

\* ------------------------------------------------------------ render.py
\* A call either returns a raster or raises: [raised, img].
Returns(img) == [raised |-> FALSE, img |-> img]
Raises(img) == [raised |-> TRUE, img |-> img]

\* apply_background, lines 387-396: the base canvas of the template
BaseCanvas(t) ==
    LET fill == IF t.background.kind = "gradient" THEN "gradient"
                ELSE IF t.background.kind = "color" THEN "color"
                ELSE "white"
    IN  <<Layer("base", fill, <<>>, NoRound, <<>>, <<>>)>>

\* _resize_fit(bg, (w, h), "cover") composited over the canvas
CompositeBackground(img, path) ==
    Append(img, Layer("background", "", path, NoRound, <<>>, <<>>))

\* apply_background
ApplyBackground(t, background_path) ==
    LET img == BaseCanvas(t) IN
    IF Truthy(background_path) /\ ImageOpens(background_path)
    THEN Returns(CompositeBackground(img, background_path))
    ELSE IF t.background.kind = "image" /\ Truthy(t.background.value)
         THEN IF Exists(t.background.value)
              THEN IF ImageOpens(t.background.value)
                   THEN Returns(CompositeBackground(img, t.background.value))
                   ELSE Raises(img)
              ELSE Returns(img)
         ELSE Returns(img)

\* _round_corners(img, radius): the per-corner rounding the mask applies
RoundCorners(radius) ==
    IF radius <= 0 THEN NoRound ELSE <<radius, radius, radius, radius>>

\* the rounding place_slot asks for: _round_corners(fitted, slot.radius)
SlotRounding(slot) == RoundCorners(slot.radius)

\* place_slot without its check that the file exists
PlaceSlotUnchecked(base, slot, content_path) ==
    IF ~ImageOpens(content_path) THEN Raises(base)
    ELSE Returns(Append(base,
            Layer("slot", slot.key, content_path, SlotRounding(slot), <<>>, <<>>)))

\* place_slot(base, slot, content_path)
PlaceSlot(base, slot, content_path) ==
    IF ~Exists(content_path) THEN Returns(base)
    ELSE IF ~ImageOpens(content_path) THEN Raises(base)
    ELSE Returns(Append(base,
            Layer("slot", slot.key, content_path, SlotRounding(slot), <<>>, <<>>)))

\* draw_text_block(img, block, text)
DrawTextBlock(img, block, text) ==
    Append(img, Layer("text", block.key, <<>>, NoRound, text, block.style.color))

\* compose_cover, lines 432-437: one iteration of the slot loop
SlotStepResult(base, slot, ri) ==
    LET raw == DictGet(ri.slot_paths, slot.key, None)
        slot_path == IF Truthy(raw) THEN raw ELSE None
    IN  IF Truthy(slot_path) THEN PlaceSlot(base, slot, slot_path) ELSE Returns(base)

\* compose_cover, line 442-443: the colour override in effect for a text block
HasOverride(text, ri) ==
    LET override == DictGet(ri.text_colors, text.key, None)
    IN  override # None /\ StartsWith(Strip(override), "#")

\* compose_cover, lines 445-446: tmp = deepcopy(text); tmp.style.color = override
OverrideCopy(text, ri) ==
    [text EXCEPT !.style.color = Strip(DictGet(ri.text_colors, text.key, None))]

\* compose_cover, lines 441-449: one iteration of the text loop
TextStepResult(base, text, ri) ==
    LET content == DictGet(ri.texts, text.key, <<>>)
    IN  IF HasOverride(text, ri)
        THEN DrawTextBlock(base, OverrideCopy(text, ri), content)
        ELSE DrawTextBlock(base, text, content)

\* the override written into the template's own text block (no deepcopy)
TemplateAfterTextInPlace(t, i, ri) ==
    IF HasOverride(t.texts[i], ri)
    THEN [t EXCEPT !.texts[i] = OverrideCopy(t.texts[i], ri)]
    ELSE t

\* compose_cover, lines 444-446: the template after a text block was drawn
\* (the override is applied to a deep copy, so the template keeps its colour)
TemplateAfterText(t, i, ri) == t

\* a slot loop that walks the list from its end
SlotAtReversed(t, i) == t.slots[Len(t.slots) - i + 1]

\* compose_cover, lines 431 and 440: the element a loop visits at its i-th step
SlotAt(t, i) == t.slots[i]
TextAt(t, i) == t.texts[i]

\* compose_cover as a function of its arguments: the raster, or the raise
RECURSIVE SlotLoop(_, _, _, _)
SlotLoop(base, t, ri, i) ==
    IF i > Len(t.slots) THEN Returns(base)
    ELSE LET r == SlotStepResult(base, SlotAt(t, i), ri)
         IN  IF r.raised THEN r ELSE SlotLoop(r.img, t, ri, i + 1)

RECURSIVE TextLoop(_, _, _, _)
TextLoop(base, t, ri, i) ==
    IF i > Len(t.texts) THEN base
    ELSE TextLoop(TextStepResult(base, TextAt(t, i), ri), t, ri, i + 1)

ComposeCover(ri, t) ==
    LET b == ApplyBackground(t, ri.background_path) IN
    IF b.raised THEN b
    ELSE LET s == SlotLoop(b.img, t, ri, 1)
         IN  IF s.raised THEN s ELSE Returns(TextLoop(s.img, t, ri, 1))

\* ---------------------------------------------------------------- models.py
\* render_input_from_row._as_str
AsStr(value) == IF value = None THEN <<>> ELSE Strip(value)

\* render_input_from_row on a row whose cells are already grouped by column
\* kind: the RenderInput, or the ValueError for a blank template_key/output_name
RenderInputFromRow(row) ==
    LET template_key == AsStr(row.template_key)
        output_name == AsStr(row.output_name)
        background_path == IF AsStr(row.background_path) # <<>>
                           THEN AsStr(row.background_path) ELSE None
        ri == [template_key |-> template_key, output_name |-> output_name,
               background_path |-> background_path,
               texts |-> [k \in DOMAIN row.texts |-> AsStr(row.texts[k])],
               text_colors |-> [k \in DOMAIN row.text_colors |-> AsStr(row.text_colors[k])],
               slot_paths |-> [k \in DOMAIN row.slot_paths |-> AsStr(row.slot_paths[k])]]
    IN  IF template_key = <<>> \/ output_name = <<>>
        THEN [raised |-> TRUE, ri |-> ri]
        ELSE [raised |-> FALSE, ri |-> ri]

\* --------------------------------------------------------------- templates.py
\* default_template()
DefaultTemplate ==
    [key |-> <<"d">>,
     background |-> [kind |-> "color", value |-> <<"#", "f">>],
     slots |-> <<[key |-> "screenshot-1", radius |-> 32, radii |-> <<>>]>>,
     texts |-> <<[key |-> "title", style |-> [color |-> <<"#", "1">>]],
                 [key |-> "subtitle", style |-> [color |-> <<"#", "4">>]]>>]

\* ------------------------------------------------------------------ main.py
\* CoverApp._get_template: the registry is a dict in insertion order
GetTemplate(reg, key) ==
    IF \E i \in 1..Len(reg) : reg[i].key = key
    THEN reg[CHOOSE i \in 1..Len(reg) : reg[i].key = key]
    ELSE IF Len(reg) > 0 THEN reg[1] ELSE DefaultTemplate

\* a batch loop that stops at the first row it cannot parse
RowAfterParseFailureStop(i, n) == n + 1

\* run_batch lines 905-907: `continue` after a row that failed to parse
RowAfterParseFailure(i, n) == i + 1

\* the CSV rows of a batch
BatchRows ==
    [template_key : {<<"k">>, <<"x">>, <<" ">>},
     output_name : {<<" ", "o">>, <<>>},
     background_path : {<<>>},
     texts : {("t1" :> <<"a">>)},
     text_colors : {EmptyDict},
     slot_paths : {("s1" :> GoodPng), ("s1" :> BadPng)}]

RECURSIVE SeqsUpTo(_, _)
SeqsUpTo(S, n) ==
    IF n = 0 THEN {<<>>}
    ELSE LET shorter == SeqsUpTo(S, n - 1)
         IN  shorter \cup {Append(q, x) : q \in shorter, x \in S}

\* the template registries of a batch: empty, one template, or two
Registries ==
    LET tk == TemplateOf([kind |-> "color", value |-> <<"#", "f">>], 1, 1)
        tj == [TemplateOf([kind |-> "image", value |-> BadPng], 1, 1)
                  EXCEPT !.key = <<"j">>]
    IN  {<<>>, <<tk>>, <<tj, tk>>}

\* ------------------------------------------------------------------- state
VARIABLES
    template,   \* the TemplateDefinition passed to compose_cover
    rinput,     \* the RenderInput passed to compose_cover
    pc,         \* position in run_batch / render_to_file / compose_cover
    idx,        \* position of the running loop in its list
    canvas,     \* base: the raster being composed
    trace,      \* the steps compose_cover has performed, in order
    err,        \* where the call raised ("" while it has not)
    disk,       \* the output location: parent directory and output file
    registry,   \* CoverApp.registry: the templates, in insertion order
    rows,       \* run_batch: the rows read from the CSV file
    rowIdx,     \* run_batch: the row the loop is at (from 1)
    success,    \* run_batch: the success counter
    outcome,    \* run_batch: what happened to each row attempted so far
    tally,      \* run_batch: the <<success, total>> it reports at the end
    call,       \* the arguments of the function call under examination
    ret         \* that call's local variables and its result

batch == <<registry, rows, rowIdx, success, outcome, tally>>
calc == <<call, ret>>
vars == <<template, rinput, pc, idx, canvas, trace, err, disk, batch, calc>>

Step(name, key) == [step |-> name, key |-> key]

\* the output location before a call: no parent directory, or the directory
\* without the file, or the directory with an older file of that name
DiskStates ==
    {[dir |-> "absent", file |-> "absent"],
     [dir |-> "present", file |-> "absent"],
     [dir |-> "present", file |-> "old"]}

TypeOK ==
    /\ pc \in {"start", "slots", "texts", "composed", "save", "done", "error",
               "batch_start", "next_row", "batch_done", "batch_aborted"}
    /\ err \in {"", "background", "slot", "mkdir", "save"}
    /\ disk.dir \in {"absent", "present", "created"}
    /\ disk.file \in {"absent", "old", "partial", "png"}
    /\ success \in 0..MaxRows

\* no single function call is under examination
NoCalc == call = <<>> /\ ret = <<>>

NoBatch ==
    /\ registry = <<>>
    /\ rows = <<>>
    /\ rowIdx = 0
    /\ success = 0
    /\ outcome = <<>>
    /\ tally = <<>>

\* the state in which render_to_file(render_input, template, output_path) is called
Init ==
    /\ template \in Templates
    /\ rinput \in RenderInputs
    /\ disk \in DiskStates
    /\ pc = "start"
    /\ idx = 1
    /\ canvas = <<>>
    /\ trace = <<>>
    /\ err = ""
    /\ NoBatch
    /\ NoCalc
\* where compose_cover continues after a loop ends
AfterBackground(t) ==
    IF Len(t.slots) > 0 THEN "slots" ELSE IF Len(t.texts) > 0 THEN "texts" ELSE "composed"
AfterSlots(t) == IF Len(t.texts) > 0 THEN "texts" ELSE "composed"

\* compose_cover line 427: base = apply_background(template, background_path)
Background ==
    /\ pc = "start"
    /\ LET r == ApplyBackground(template, rinput.background_path) IN
        /\ trace' = Append(trace, Step("background", ""))
        /\ canvas' = r.img
        /\ pc' = IF r.raised THEN "error" ELSE AfterBackground(template)
        /\ err' = IF r.raised THEN "background" ELSE err
    /\ idx' = 1
    /\ UNCHANGED <<template, rinput, disk, batch, calc>>

\* compose_cover lines 431-437: one iteration of the slot loop
SlotStep ==
    /\ pc = "slots"
    /\ idx <= Len(template.slots)
    /\ LET slot == SlotAt(template, idx)
           r == SlotStepResult(canvas, slot, rinput)
       IN
        /\ trace' = Append(trace, Step("slot", slot.key))
        /\ canvas' = r.img
        /\ err' = IF r.raised THEN "slot" ELSE err
        /\ pc' = IF r.raised THEN "error"
                 ELSE IF idx = Len(template.slots) THEN AfterSlots(template)
                 ELSE pc
        /\ idx' = IF ~r.raised /\ idx < Len(template.slots) THEN idx + 1 ELSE 1
    /\ UNCHANGED <<template, rinput, disk, batch, calc>>

\* compose_cover lines 440-449: one iteration of the text loop
TextStep ==
    /\ pc = "texts"
    /\ idx <= Len(template.texts)
    /\ LET text == TextAt(template, idx) IN
        /\ trace' = Append(trace, Step("text", text.key))
        /\ canvas' = TextStepResult(canvas, text, rinput)
        /\ template' = TemplateAfterText(template, idx, rinput)
    /\ pc' = IF idx = Len(template.texts) THEN "composed" ELSE pc
    /\ idx' = IF idx < Len(template.texts) THEN idx + 1 ELSE 1
    /\ UNCHANGED <<rinput, err, disk, batch, calc>>

\* render_to_file line 456: output_path.parent.mkdir(parents=True, exist_ok=True)
Mkdir ==
    /\ pc = "composed"
    /\ \/ /\ disk.dir # "absent"
          /\ pc' = "save"
          /\ UNCHANGED <<disk, err>>
       \/ /\ disk.dir = "absent"
          /\ disk' = [disk EXCEPT !.dir = "created"]
          /\ pc' = "save"
          /\ UNCHANGED err
       \/ /\ disk.dir = "absent"
          /\ pc' = "error"
          /\ err' = "mkdir"
          /\ UNCHANGED disk
    /\ UNCHANGED <<template, rinput, idx, canvas, trace, batch, calc>>

\* render_to_file line 457: img.save(output_path, format="PNG").  The save
\* writes the whole file, or raises before the file is opened for writing,
\* or raises after it was opened (and truncated).
Save ==
    /\ pc = "save"
    /\ \/ /\ disk' = [disk EXCEPT !.file = "png"]
          /\ pc' = "done"
          /\ UNCHANGED err
       \/ /\ pc' = "error"
          /\ err' = "save"
          /\ UNCHANGED disk
       \/ /\ pc' = "error"
          /\ err' = "save"
          /\ disk' = [disk EXCEPT !.file = "partial"]
    /\ UNCHANGED <<template, rinput, idx, canvas, trace, batch, calc>>

Next == Background \/ SlotStep \/ TextStep \/ Mkdir \/ Save

Spec == Init /\ [][Next]_vars

\* --------------------------------------------------------------- run_batch
\* the state in which run_batch is called, the CSV file read (lines 893-896)
InitBatch ==
    /\ registry \in Registries
    /\ rows \in SeqsUpTo(BatchRows, MaxRows)
    /\ pc = "batch_start"
    /\ rowIdx = 0
    /\ success = 0
    /\ outcome = <<>>
    /\ tally = <<>>
    /\ template = DefaultTemplate
    /\ rinput = RenderInputFromRow(CHOOSE r \in BatchRows : TRUE).ri
    /\ disk = [dir |-> "present", file |-> "absent"]
    /\ idx = 1
    /\ canvas = <<>>
    /\ trace = <<>>
    /\ err = ""
    /\ NoCalc

\* run_batch lines 899-901: out_dir.mkdir(...) outside any try; success = 0
BatchStart ==
    /\ pc = "batch_start"
    /\ \/ /\ pc' = "next_row"
          /\ rowIdx' = 1
          /\ success' = 0
       \/ /\ pc' = "batch_aborted"
          /\ UNCHANGED <<rowIdx, success>>
    /\ UNCHANGED <<template, rinput, idx, canvas, trace, err, disk, registry, rows,
                   outcome, tally, calc>>

\* run_batch lines 902-909: the next row is parsed; a row that fails to parse is
\* logged and skipped, another one starts render_to_file on its output path
ReadRow ==
    /\ pc = "next_row"
    /\ rowIdx <= Len(rows)
    /\ LET r == RenderInputFromRow(rows[rowIdx]) IN
        IF r.raised
        THEN /\ outcome' = Append(outcome, [row |-> rowIdx, result |-> "parse_failed"])
             /\ rowIdx' = RowAfterParseFailure(rowIdx, Len(rows))
             /\ UNCHANGED <<template, rinput, pc, idx, canvas, trace, err, disk>>
        ELSE /\ rinput' = r.ri
             /\ template' = GetTemplate(registry, r.ri.template_key)
             /\ disk' \in DiskStates
             /\ pc' = "start"
             /\ idx' = 1
             /\ canvas' = <<>>
             /\ trace' = <<>>
             /\ err' = ""
             /\ UNCHANGED <<rowIdx, outcome>>
    /\ UNCHANGED <<registry, rows, success, tally, calc>>

\* run_batch lines 910-914: render_to_file returned (success += 1) or raised
\* (logged); the loop goes on to the next row either way
RowDone ==
    /\ pc \in {"done", "error"}
    /\ success' = IF pc = "done" THEN success + 1 ELSE success
    /\ outcome' = Append(outcome,
          [row |-> rowIdx, result |-> IF pc = "done" THEN "ok" ELSE "render_failed"])
    /\ rowIdx' = rowIdx + 1
    /\ pc' = "next_row"
    /\ UNCHANGED <<template, rinput, idx, canvas, trace, err, disk, registry, rows, tally,
                   calc>>

\* run_batch lines 915-916: the loop is over, the tally is reported
BatchFinish ==
    /\ pc = "next_row"
    /\ rowIdx > Len(rows)
    /\ tally' = <<success, Len(rows)>>
    /\ pc' = "batch_done"
    /\ UNCHANGED <<template, rinput, idx, canvas, trace, err, disk, registry, rows,
                   rowIdx, success, outcome, calc>>

NextBatch ==
    \/ BatchStart \/ ReadRow \/ RowDone \/ BatchFinish
    \/ Background \/ SlotStep \/ TextStep \/ Mkdir \/ Save

SpecBatch == InitBatch /\ [][NextBatch]_vars

\* ---------------------------------------------- draw_text_block.wrap_lines
\* the rendering pipeline is not running
NoRender ==
    /\ template = <<>>
    /\ rinput = <<>>
    /\ pc = "idle"
    /\ idx = 0
    /\ canvas = <<>>
    /\ trace = <<>>
    /\ err = ""
    /\ disk = [dir |-> "absent", file |-> "absent"]

\* the characters of text content: a narrow glyph, a wide glyph and the space
Glyphs == {"a", "W", " "}

Contents == SeqsUpTo(Glyphs, MaxLen)

\* the advance of one glyph in the loaded font, in pixels
GlyphWidth(c) == IF c = "W" THEN 3 ELSE 1

\* draw.textbbox((0, 0), s, font=font): bbox[2] - bbox[0]
RECURSIVE Measure(_)
Measure(s) == IF s = <<>> THEN 0 ELSE GlyphWidth(Head(s)) + Measure(Tail(s))

\* str.split(): the maximal runs of non-whitespace characters, in order
RECURSIVE SplitFrom(_, _)
SplitFrom(s, word) ==
    IF s = <<>> THEN (IF word = <<>> THEN <<>> ELSE <<word>>)
    ELSE IF Head(s) = " "
         THEN (IF word = <<>> THEN <<>> ELSE <<word>>) \o SplitFrom(Tail(s), <<>>)
         ELSE SplitFrom(Tail(s), Append(word, Head(s)))

Split(s) == SplitFrom(s, <<>>)

\* block.style.max_width or w
WrapWidth(max_width, w) == IF max_width = 0 THEN w ELSE max_width

FitsLoosely(width, max_width) == width <= max_width + 1

\* bbox[2] - bbox[0] <= max_width
Fits(width, max_width) == width <= max_width

\* the calls wrap_lines(content) of a block of box width w and style.max_width
\* (0 stands for an unset max_width)
WrapCalls ==
    [fn : {"wrap_lines"}, content : Contents, max_width : {0, 2, 4}, w : {3, 5}]

InitWrap ==
    /\ NoRender
    /\ NoBatch
    /\ call \in WrapCalls
    /\ ret = [pc |-> "called", words |-> <<>>, i |-> 0, lines |-> <<>>,
              current |-> <<>>, result |-> <<>>]

\* wrap_lines lines 49-52
WrapSplit ==
    /\ call.fn = "wrap_lines"
    /\ ret.pc = "called"
    /\ ret' = [ret EXCEPT !.pc = "loop", !.words = Split(call.content), !.i = 1]
    /\ UNCHANGED <<template, rinput, pc, idx, canvas, trace, err, disk, batch, call>>

\* a loop iteration that starts the next line without committing the current one
WrapWordDropsLine ==
    /\ call.fn = "wrap_lines"
    /\ ret.pc = "loop"
    /\ ret.i <= Len(ret.words)
    /\ LET word == ret.words[ret.i]
           trial == Strip(ret.current \o <<" ">> \o word)
       IN  ret' =
             IF Fits(Measure(trial), WrapWidth(call.max_width, call.w))
             THEN [ret EXCEPT !.i = @ + 1, !.current = trial]
             ELSE [ret EXCEPT !.i = @ + 1, !.current = word]
    /\ UNCHANGED <<template, rinput, pc, idx, canvas, trace, err, disk, batch, call>>

\* a return of the committed lines as they are, an empty list included
WrapReturnBare ==
    /\ call.fn = "wrap_lines"
    /\ ret.pc = "loop"
    /\ ret.i > Len(ret.words)
    /\ LET lines == IF Truthy(ret.current)
                    THEN Append(ret.lines, ret.current) ELSE ret.lines
       IN  ret' = [ret EXCEPT !.pc = "returned", !.lines = lines, !.result = lines]
    /\ UNCHANGED <<template, rinput, pc, idx, canvas, trace, err, disk, batch, call>>

\* wrap_lines lines 53-63: one iteration of the loop over the words
WrapWord ==
    /\ call.fn = "wrap_lines"
    /\ ret.pc = "loop"
    /\ ret.i <= Len(ret.words)
    /\ LET word == ret.words[ret.i]
           trial == Strip(ret.current \o <<" ">> \o word)
           max_width == WrapWidth(call.max_width, call.w)
       IN  ret' =
             IF ~Truthy(trial)
             THEN [ret EXCEPT !.i = @ + 1]
             ELSE IF Fits(Measure(trial), max_width)
             THEN [ret EXCEPT !.i = @ + 1, !.current = trial]
             ELSE [ret EXCEPT !.i = @ + 1,
                              !.lines = IF Truthy(ret.current)
                                        THEN Append(@, ret.current) ELSE @,
                              !.current = word]
    /\ UNCHANGED <<template, rinput, pc, idx, canvas, trace, err, disk, batch, call>>

\* wrap_lines lines 64-66
WrapReturn ==
    /\ call.fn = "wrap_lines"
    /\ ret.pc = "loop"
    /\ ret.i > Len(ret.words)
    /\ LET lines == IF Truthy(ret.current)
                    THEN Append(ret.lines, ret.current) ELSE ret.lines
       IN  ret' = [ret EXCEPT !.pc = "returned", !.lines = lines,
                              !.result = IF lines = <<>> THEN << <<>> >> ELSE lines]
    /\ UNCHANGED <<template, rinput, pc, idx, canvas, trace, err, disk, batch, call>>

NextWrap == WrapSplit \/ WrapWord \/ WrapReturn

SpecWrap == InitWrap /\ [][NextWrap]_vars

\* ------------------------------------------------ Python float arithmetic
\* A Python float is a binary64 number.  A non-negative one is [m, e]: m its
\* significand bits, most significant first (m[1] = 1), and e the exponent of
\* m[1]; zero has no bits.  Every operation rounds to nearest, ties to even.
Precision == 53

FloatZero == [m |-> <<>>, e |-> 0]

RECURSIVE BitsOfNat(_)
BitsOfNat(n) == IF n = 0 THEN <<>> ELSE Append(BitsOfNat(n \div 2), n % 2)

RECURSIVE NatOfBits(_)
NatOfBits(b) ==
    IF b = <<>> THEN 0 ELSE 2 * NatOfBits(SubSeq(b, 1, Len(b) - 1)) + b[Len(b)]

\* the double nearest to the exact value whose bits are b (b[1] = 1, of
\* exponent e), followed by something non-zero iff sticky
RoundNearestEven(b, sticky, e) ==
    LET \* x + 1; one bit longer when every bit of x is 1
        RECURSIVE Incr(_)
        Incr(x) ==
            IF x = <<>> THEN <<1>>
            ELSE IF x[Len(x)] = 0 THEN Append(SubSeq(x, 1, Len(x) - 1), 1)
            ELSE Append(Incr(SubSeq(x, 1, Len(x) - 1)), 0)
    IN  IF Len(b) <= Precision
        THEN [m |-> b \o [i \in 1..(Precision - Len(b)) |-> 0], e |-> e]
        ELSE LET keep == SubSeq(b, 1, Precision)
                 rest == sticky \/ \E k \in (Precision + 2)..Len(b) : b[k] = 1
                 up   == b[Precision + 1] = 1 /\ (rest \/ keep[Precision] = 1)
                 inc  == Incr(keep)
             IN  IF ~up THEN [m |-> keep, e |-> e]
                 ELSE IF Len(inc) > Precision
                      THEN [m |-> SubSeq(inc, 1, Precision), e |-> e + 1]
                      ELSE [m |-> inc, e |-> e]

\* n / d for ints n >= 0, d > 0
FloatDiv(n, d) ==
    LET \* n / d = (x / y) * 2^e with y <= x < 2 * y
        RECURSIVE Normalise(_, _, _)
        Normalise(x, y, e) ==
            IF x >= 2 * y THEN Normalise(x, 2 * y, e + 1)
            ELSE IF x < y THEN Normalise(2 * x, y, e - 1)
            ELSE <<x, y, e>>
        \* the first k bits of r / y after the binary point (r < y)
        RECURSIVE QuotientBits(_, _, _)
        QuotientBits(r, y, k) ==
            IF k = 0 THEN <<>>
            ELSE LET bit == IF 2 * r >= y THEN 1 ELSE 0
                 IN  <<bit>> \o QuotientBits(2 * r - bit * y, y, k - 1)
        \* what is left of r / y after those k bits
        RECURSIVE RemainderAfter(_, _, _)
        RemainderAfter(r, y, k) ==
            IF k = 0 THEN r ELSE RemainderAfter((2 * r) % y, y, k - 1)
    IN  IF n = 0 THEN FloatZero
        ELSE LET nd == Normalise(n, d, 0)
                 r0 == nd[1] - nd[2]
             IN  RoundNearestEven(<<1>> \o QuotientBits(r0, nd[2], Precision),
                                  RemainderAfter(r0, nd[2], Precision) # 0, nd[3])

\* a * x for an int a >= 0 and a float x
FloatMulInt(a, x) ==
    LET \* the bits of a * b + carry
        RECURSIVE TimesBits(_, _)
        TimesBits(b, carry) ==
            IF b = <<>> THEN BitsOfNat(carry)
            ELSE LET v    == a * b[Len(b)] + carry
                     rest == SubSeq(b, 1, Len(b) - 1)
                 IN  IF v % 2 = 0 THEN Append(TimesBits(rest, v \div 2), 0)
                     ELSE Append(TimesBits(rest, v \div 2), 1)
    IN  IF a = 0 \/ x.m = <<>> THEN FloatZero
        ELSE LET p == TimesBits(x.m, 0)
             IN  RoundNearestEven(p, FALSE, x.e + Len(p) - Precision)

\* c + x for an int c >= 0 and a float x
FloatAddInt(c, x) ==
    IF x.m = <<>> THEN FloatDiv(c, 1)
    ELSE LET whole == IF x.e < 0 THEN <<>> ELSE SubSeq(x.m, 1, x.e + 1)
             frac  == IF x.e < 0 THEN [i \in 1..(-x.e - 1) |-> 0] \o x.m
                      ELSE SubSeq(x.m, x.e + 2, Precision)
             s     == BitsOfNat(c + NatOfBits(whole))
         IN  IF s = <<>> THEN x ELSE RoundNearestEven(s \o frac, FALSE, Len(s) - 1)

\* int(x)
FloatTrunc(x) ==
    IF x.m = <<>> \/ x.e < 0 THEN 0 ELSE NatOfBits(SubSeq(x.m, 1, x.e + 1))

\* x < y
FloatLess(x, y) ==
    LET \* a < b for bit strings of one length
        RECURSIVE BitsLess(_, _)
        BitsLess(a, b) ==
            /\ a # <<>>
            /\ \/ Head(a) < Head(b)
               \/ Head(a) = Head(b) /\ BitsLess(Tail(a), Tail(b))
    IN  IF y.m = <<>> THEN FALSE
        ELSE IF x.m = <<>> THEN TRUE
        ELSE x.e < y.e \/ (x.e = y.e /\ BitsLess(x.m, y.m))

FloatMin(x, y) == IF FloatLess(y, x) THEN y ELSE x

FloatMax(x, y) == IF FloatLess(x, y) THEN y ELSE x

\* -------------------------------------------------------------- _resize_fit
Max(a, b) == IF a >= b THEN a ELSE b

\* the calls _resize_fit(img, (tw, th), fit, ...) on an image of size (iw, ih)
FitCalls ==
    [fn : {"_resize_fit"}, iw : 1..MaxWidth, ih : 1..MaxHeight,
     tw : 1..MaxWidth, th : 1..MaxHeight, fit : {"contain", "cover"}]

\* _resize_fit lines 94-98: new_size
NewSize(iw, ih, tw, th, fit) ==
    LET sx    == FloatDiv(tw, iw)
        sy    == FloatDiv(th, ih)
        scale == IF fit = "contain" THEN FloatMin(sx, sy) ELSE FloatMax(sx, sy)
    IN  <<Max(1, FloatTrunc(FloatMulInt(iw, scale))),
          Max(1, FloatTrunc(FloatMulInt(ih, scale)))>>

\* the offset along one axis: align is the start, the end or the centre;
\* // rounds towards minus infinity, as \div does
AlignOffset(align, room) ==
    IF align \in {"left", "top"} THEN 0
    ELSE IF align \in {"right", "bottom"} THEN room
    ELSE room \div 2

InitFit ==
    /\ NoRender
    /\ NoBatch
    /\ call \in FitCalls
    /\ ret = [pc |-> "called"]

\* _resize_fit lines 92-99
FitResize ==
    /\ call.fn = "_resize_fit"
    /\ ret.pc = "called"
    /\ ret' = [pc |-> "resized",
               resized |-> NewSize(call.iw, call.ih, call.tw, call.th, call.fit)]
    /\ UNCHANGED <<template, rinput, pc, idx, canvas, trace, err, disk, batch, call>>

\* _resize_fit lines 100-117: the resized image pasted at (cx, cy) onto a
\* transparent canvas of the target size
FitContain ==
    /\ call.fn = "_resize_fit"
    /\ ret.pc = "resized"
    /\ call.fit = "contain"
    /\ \E align_x \in {"left", "center", "right"}, align_y \in {"top", "center", "bottom"} :
         ret' = [pc |-> "returned", resized |-> ret.resized,
                 align |-> <<align_x, align_y>>,
                 size |-> <<call.tw, call.th>>,
                 fill |-> "transparent",
                 at |-> <<AlignOffset(align_x, call.tw - ret.resized[1]),
                          AlignOffset(align_y, call.th - ret.resized[2])>>]
    /\ UNCHANGED <<template, rinput, pc, idx, canvas, trace, err, disk, batch, call>>

\* _resize_fit lines 118-133: the box (left, top, left + tw, top + th) cropped
\* out of the resized image; what the box holds outside the image is transparent
FitCover ==
    /\ call.fn = "_resize_fit"
    /\ ret.pc = "resized"
    /\ call.fit # "contain"
    /\ \E align_x \in {"left", "center", "right"}, align_y \in {"top", "center", "bottom"} :
         ret' = [pc |-> "returned", resized |-> ret.resized,
                 align |-> <<align_x, align_y>>,
                 size |-> <<call.tw, call.th>>,
                 fill |-> "transparent",
                 at |-> <<AlignOffset(align_x, ret.resized[1] - call.tw),
                          AlignOffset(align_y, ret.resized[2] - call.th)>>]
    /\ UNCHANGED <<template, rinput, pc, idx, canvas, trace, err, disk, batch, call>>

NextFit == FitResize \/ FitContain \/ FitCover

SpecFit == InitFit /\ [][NextFit]_vars

\* ----------------------------------------------------------- _draw_gradient
\* The field position of a pixel (pos, clipped to [0, 1]) and the position of a
\* stop are counted in quarters: 0, 1/4, 1/2, 3/4, 1 are exact as floats, and
\* the image has one pixel at each of them.
Quarters == 4

Positions == 0..Quarters

\* int(h, 16) of one digit
HexVal(h) ==
    LET digits == <<"0", "1", "2", "3", "4", "5", "6", "7", "8", "9",
                    "a", "b", "c", "d", "e", "f">>
    IN  (CHOOSE k \in 1..16 : digits[k] = h) - 1

\* str.lstrip("#")
RECURSIVE LStripHash(_)
LStripHash(s) == IF s # <<>> /\ Head(s) = "#" THEN LStripHash(Tail(s)) ELSE s

\* _draw_gradient.hex_to_rgba lines 314-321; opacity counted in halves
HexToRgba(hex_str, opacity) ==
    LET hex == LStripHash(hex_str)
        rgb == IF Len(hex) = 6
               THEN [k \in 1..3 |-> 16 * HexVal(hex[2 * k - 1]) + HexVal(hex[2 * k])]
               ELSE <<255, 255, 255>>
        clamped == IF opacity > 2 THEN 2 ELSE IF opacity < 0 THEN 0 ELSE opacity
    IN  Append(rgb, FloatTrunc(FloatMulInt(255, FloatDiv(clamped, 2))))

StopColors == {<<"#", "f", "f", "0", "0", "0", "0">>,
               <<"#", "0", "0", "0", "0", "f", "f">>}

\* gradient_stops = None
NoneStops == <<[color |-> None, position |-> 0]>>

\* config.gradient_stops: None, or a list of stops
StopLists == {NoneStops} \cup SeqsUpTo([color : StopColors, position : Positions], MaxStops)

FewerThanOne(stops) == stops = NoneStops \/ stops = <<>> \/ Len(stops) < 1

\* not config.gradient_stops or len(config.gradient_stops) < 2
FewerThanTwo(stops) == stops = NoneStops \/ stops = <<>> \/ Len(stops) < 2

ConfigOrder(stops) == stops

\* sorted(stops, key=position): stable
RECURSIVE SortStops(_)
SortStops(stops) ==
    IF stops = <<>> THEN <<>>
    ELSE LET rest == SortStops(SubSeq(stops, 1, Len(stops) - 1))
             x    == stops[Len(stops)]
             k    == Cardinality({j \in 1..Len(rest) : rest[j].position <= x.position})
         IN  SubSeq(rest, 1, k) \o <<x>> \o SubSeq(rest, k + 1, Len(rest))

\* .astype(np.uint8) of a float: its integer part when that fits; converting a
\* float outside 0..255 is undefined in C, and the build either keeps the low
\* byte of the integer or saturates
AsUint8(x, build) ==
    LET v == FloatTrunc(x)
    IN  IF v < 256 THEN v ELSE IF build = "wrap" THEN v % 256 ELSE 255

\* _draw_gradient line 366: c1[ch] and c2[ch] are np.uint8 and their difference
\* wraps; the product with t and the sum are floats
Interpolate(c1, c2, t, build) ==
    AsUint8(FloatAddInt(c1, FloatMulInt((c2 - c1) % 256, t)), build)

\* the calls apply_background makes for a gradient background
GradientCalls ==
    [fn : {"_draw_gradient"}, gradient_stops : StopLists, opacity : {1, 2},
     build : {"wrap", "saturate"}]

Transparent == [p \in Positions |-> <<0, 0, 0, 0>>]

InitGradient ==
    /\ NoRender
    /\ NoBatch
    /\ call \in GradientCalls
    /\ ret = [pc |-> "called"]

\* apply_background lines 389-391 and _draw_gradient lines 309-310
GradientReturnsCanvas ==
    /\ call.fn = "_draw_gradient"
    /\ ret.pc = "called"
    /\ FewerThanTwo(call.gradient_stops)
    /\ ret' = [pc |-> "returned", img |-> "canvas", arr |-> Transparent]
    /\ UNCHANGED <<template, rinput, pc, idx, canvas, trace, err, disk, batch, call>>

\* apply_background lines 389-391 and _draw_gradient lines 309-351
GradientSort ==
    /\ call.fn = "_draw_gradient"
    /\ ret.pc = "called"
    /\ ~FewerThanTwo(call.gradient_stops)
    /\ ret' = [pc |-> "interpolate", stops |-> SortStops(call.gradient_stops),
               i |-> 1, arr |-> Transparent]
    /\ UNCHANGED <<template, rinput, pc, idx, canvas, trace, err, disk, batch, call>>

\* _draw_gradient lines 353-366: one iteration of the loop over the stop pairs
GradientPair ==
    /\ call.fn = "_draw_gradient"
    /\ ret.pc = "interpolate"
    /\ ret.i <= Len(ret.stops) - 1
    /\ LET p1 == ret.stops[ret.i].position
           p2 == ret.stops[ret.i + 1].position
           c1 == HexToRgba(ret.stops[ret.i].color, call.opacity)
           c2 == HexToRgba(ret.stops[ret.i + 1].color, call.opacity)
       IN  ret' =
             IF p2 <= p1 THEN [ret EXCEPT !.i = @ + 1]
             ELSE [ret EXCEPT !.i = @ + 1,
                     !.arr = [p \in Positions |->
                        IF p >= p1 /\ p <= p2
                        THEN LET t == FloatDiv(p - p1, p2 - p1)
                             IN  [ch \in 1..4 |->
                                    Interpolate(c1[ch], c2[ch], t, call.build)]
                        ELSE ret.arr[p]]]
    /\ UNCHANGED <<template, rinput, pc, idx, canvas, trace, err, disk, batch, call>>

\* _draw_gradient lines 368-382
GradientFill ==
    /\ call.fn = "_draw_gradient"
    /\ ret.pc = "interpolate"
    /\ ret.i > Len(ret.stops) - 1
    /\ LET first == ret.stops[1]
           last  == ret.stops[Len(ret.stops)]
       IN  ret' = [pc |-> "returned", img |-> "fromarray", stops |-> ret.stops,
                   arr |-> [p \in Positions |->
                      IF p > last.position THEN HexToRgba(last.color, call.opacity)
                      ELSE IF p < first.position
                      THEN HexToRgba(first.color, call.opacity)
                      ELSE ret.arr[p]]]
    /\ UNCHANGED <<template, rinput, pc, idx, canvas, trace, err, disk, batch, call>>

NextGradient == GradientReturnsCanvas \/ GradientSort \/ GradientPair \/ GradientFill

SpecGradient == InitGradient /\ [][NextGradient]_vars

\* ------------------------------------------------------------ build_preview
Min(a, b) == IF a <= b THEN a ELSE b

PreviewScaleByShorterEdge(w, h, max_size) ==
    FloatMin(FloatDiv(max_size, Min(w, h)), FloatDiv(1, 1))

\* min(max_size / max(w, h), 1.0)
PreviewScale(w, h, max_size) ==
    FloatMin(FloatDiv(max_size, Max(w, h)), FloatDiv(1, 1))

\* the calls build_preview(render_input, template, max_size) for a template
\* of size (w, h)
InitPreview ==
    /\ NoRender
    /\ NoBatch
    /\ call \in [fn : {"build_preview"}, w : 1..MaxWidth, h : 1..MaxHeight,
                 max_size : 1..MaxWidth]
    /\ ret = [pc |-> "called"]

\* build_preview lines 462-464: compose_cover gives a raster of the template size
PreviewCompose ==
    /\ call.fn = "build_preview"
    /\ ret.pc = "called"
    /\ ret' = [pc |-> "composed", img |-> "composed", size |-> <<call.w, call.h>>,
               scale |-> PreviewScale(call.w, call.h, call.max_size)]
    /\ UNCHANGED <<template, rinput, pc, idx, canvas, trace, err, disk, batch, call>>

\* build_preview lines 465, 467: nothing to downscale
PreviewKeep ==
    /\ call.fn = "build_preview"
    /\ ret.pc = "composed"
    /\ ~FloatLess(ret.scale, FloatDiv(1, 1))
    /\ ret' = [ret EXCEPT !.pc = "returned"]
    /\ UNCHANGED <<template, rinput, pc, idx, canvas, trace, err, disk, batch, call>>

\* build_preview lines 465-467.  Image.resize to a size with an empty side
\* either raises ValueError or gives an empty raster, as the imaging library does
PreviewResize ==
    /\ call.fn = "build_preview"
    /\ ret.pc = "composed"
    /\ FloatLess(ret.scale, FloatDiv(1, 1))
    /\ LET size == <<FloatTrunc(FloatMulInt(call.w, ret.scale)),
                     FloatTrunc(FloatMulInt(call.h, ret.scale))>>
       IN  \/ ret' = [ret EXCEPT !.pc = "returned", !.img = "resized", !.size = size]
           \/ /\ size[1] < 1 \/ size[2] < 1
              /\ ret' = [ret EXCEPT !.pc = "raised"]
    /\ UNCHANGED <<template, rinput, pc, idx, canvas, trace, err, disk, batch, call>>

NextPreview == PreviewCompose \/ PreviewKeep \/ PreviewResize

SpecPreview == InitPreview /\ [][NextPreview]_vars

\* -------------------------------------------------- load_template_from_json
\* A JSON value is tagged with its type t: "int" with the number n, "str" with
\* the characters s, "list" with the items; "absent" is a key the object lacks.
Json(t, n, s, items) == [t |-> t, n |-> n, s |-> s, items |-> items]

Missing == Json("absent", 0, <<>>, <<>>)

\* str.lower()
Lower(s) ==
    LET upper == <<"A", "B", "C", "D", "E", "F", "G", "H", "I", "J", "K", "L", "M",
                  "N", "O", "P", "Q", "R", "S", "T", "U", "V", "W", "X", "Y", "Z">>
        lower == <<"a", "b", "c", "d", "e", "f", "g", "h", "i", "j", "k", "l", "m",
                  "n", "o", "p", "q", "r", "s", "t", "u", "v", "w", "x", "y", "z">>
    IN  [k \in 1..Len(s) |->
            IF \E j \in 1..26 : upper[j] = s[k]
            THEN lower[CHOOSE j \in 1..26 : upper[j] = s[k]] ELSE s[k]]

\* int(v) succeeds on an item of an array: on a number; the string items in use
\* are no numerals, and int() of one raises ValueError
IsNumeric(v) == v.t = "int"

\* load_template_from_json lines 118-140: radius, radii and whether a warning
\* was printed
ParseRadius(radius_raw) ==
    LET items == radius_raw.items
        clamp(x) == IF x < 0 THEN 0 ELSE x
    IN  IF radius_raw.t = "list" /\ Len(items) = 4
        THEN IF \A k \in 1..4 : IsNumeric(items[k])
             THEN LET vals == [k \in 1..4 |-> clamp(items[k].n)]
                  IN  [radius |-> IF \A k \in 1..4 : vals[k] = vals[1]
                                  THEN vals[1] ELSE 0,
                       radii |-> vals, warned |-> FALSE]
             ELSE [radius |-> 0, radii |-> <<>>, warned |-> TRUE]
        ELSE IF radius_raw.t = "str"
        THEN [radius |-> 0, radii |-> <<>>, warned |-> TRUE]
        ELSE [radius |-> IF radius_raw.t = "int" THEN clamp(radius_raw.n) ELSE 0,
              radii |-> <<>>, warned |-> FALSE]

\* str(obj.get("key", default))
KeyOf(obj, default) == IF obj.key = Missing THEN default ELSE obj.key.s

\* load_template_from_json lines 115-155: the slots, in order
LoadSlots(raw) ==
    [i \in 1..Len(raw) |->
        [key |-> KeyOf(raw[i], <<"s", "l", "o", "t", "-">>
                                   \o <<(<<"0", "1", "2", "3">>)[i]>>)]
            @@ ParseRadius(raw[i].radius)]

\* load_template_from_json lines 157-172: the texts, in order
LoadTexts(raw) ==
    [i \in 1..Len(raw) |-> [key |-> KeyOf(raw[i], <<"t", "e", "x", "t">>)]]

\* TemplateEditor._validate_keys, for one group: TRUE when it reports an error
RECURSIVE KeysRejected(_, _)
KeysRejected(items, seen) ==
    /\ items # <<>>
    /\ LET key == Strip(KeyOf(Head(items), <<>>))
       IN  \/ ~Truthy(key)
           \/ \E k \in 1..Len(key) : key[k] = "."
           \/ Lower(key) \in seen
           \/ KeysRejected(Tail(items), seen \cup {Lower(key)})

\* Template data handed to the editor's _save or to the registry's loaders.
\* A raw "radius" is missing, a number, a string, or an array that is well
\* formed, of a wrong length, or holds a non-numeric item; a raw "key" is
\* missing, empty, "a" or "A".  The slot objects are every key value, and
\* every radius value under key "a".
InitLoad ==
    LET n(x)     == Json("int", x, <<>>, <<>>)
        str(c)   == Json("str", 0, c, <<>>)
        list(xs) == Json("list", 0, <<>>, xs)
        RadiusValues ==
            {Missing, n(8), str(<<"8">>), list(<<n(8), n(8)>>),
             list(<<n(1), n(2), n(3), n(4)>>),
             list(<<n(1), str(<<"x">>), n(3), n(4)>>)}
        KeyValues == {Missing, str(<<>>), str(<<"a">>), str(<<"A">>)}
        SlotObjects ==
            {[key |-> k, radius |-> Missing] : k \in KeyValues}
                \cup {[key |-> str(<<"a">>), radius |-> r] : r \in RadiusValues}
        TextObjects == {[key |-> k] : k \in KeyValues \ {str(<<>>)}}
    IN  /\ NoRender
        /\ NoBatch
        /\ call \in [fn : {"load_template_from_json"},
                     slots : SeqsUpTo(SlotObjects, MaxSlots),
                     texts : SeqsUpTo(TextObjects, MaxTexts),
                     editor : BOOLEAN]
        /\ ret = [pc |-> IF call.editor THEN "save" ELSE "load"]

\* TemplateEditor._save lines 440-443
EditorValidate ==
    /\ call.fn = "load_template_from_json"
    /\ ret.pc = "save"
    /\ ret' = [pc |-> IF KeysRejected(call.slots, {}) \/ KeysRejected(call.texts, {})
                      THEN "rejected" ELSE "load"]
    /\ UNCHANGED <<template, rinput, pc, idx, canvas, trace, err, disk, batch, call>>

\* load_template_from_json lines 95-181
LoadTemplate ==
    /\ call.fn = "load_template_from_json"
    /\ ret.pc = "load"
    /\ ret' = [pc |-> "loaded", slots |-> LoadSlots(call.slots),
               texts |-> LoadTexts(call.texts)]
    /\ UNCHANGED <<template, rinput, pc, idx, canvas, trace, err, disk, batch, call>>

\* the template enters the registry: TemplateRegistry.import_json,
\* add_from_dict and load_dir, or save_template from the editor's on_save
RegistryStore ==
    /\ call.fn = "load_template_from_json"
    /\ ret.pc = "loaded"
    /\ \E by \in IF call.editor THEN {"save_template"}
                 ELSE {"import_json", "add_from_dict", "load_dir"} :
         ret' = [ret EXCEPT !.pc = by]
    /\ UNCHANGED <<template, rinput, pc, idx, canvas, trace, err, disk, batch, call>>

NextLoad == EditorValidate \/ LoadTemplate \/ RegistryStore

SpecLoad == InitLoad /\ [][NextLoad]_vars

\* ----------------------------------------------------- render_input_from_row
\* A CSV row is the sequence of its cells [col, raw] in column order; "<feff>"
\* is the byte order mark a spreadsheet export puts before the first column.
\* render_input_from_row._clean_col
CleanCol(s) ==
    LET RECURSIVE LStripZeroWidth(_)
        LStripZeroWidth(x) ==
            IF x # <<>> /\ Head(x) = "<feff>" THEN LStripZeroWidth(Tail(x)) ELSE x
    IN  LStripZeroWidth(Strip(s))

\* render_input_from_row lines 225-244: the mapping and the key a column
\* addresses; kind "none" for a column that addresses nothing
ColumnTarget(col) ==
    LET col_str == CleanCol(col)
        low == Lower(col_str)
        HasPrefix(x, y) == Len(x) >= Len(y) /\ SubSeq(x, 1, Len(y)) = y
        HasSuffix(x, y) ==
            Len(x) >= Len(y) /\ SubSeq(x, Len(x) - Len(y) + 1, Len(x)) = y
        Dots(x) == {k \in 1..Len(x) : x[k] = "."}
        FirstDot(x) == CHOOSE k \in Dots(x) : \A j \in Dots(x) : k <= j
        LastDot(x) == CHOOSE k \in Dots(x) : \A j \in Dots(x) : k >= j
        \* x.split(".", 1)[1]
        AfterFirstDot(x) == SubSeq(x, FirstDot(x) + 1, Len(x))
        \* x.rsplit(".", 1)[0]
        BeforeLastDot(x) == SubSeq(x, 1, LastDot(x) - 1)
        rest == Strip(AfterFirstDot(col_str))
        target(kind, key) ==
            [kind |-> IF key = <<>> THEN "none" ELSE kind, key |-> key]
    IN  IF col_str = <<>> THEN target("none", <<>>)
        ELSE IF HasPrefix(low, <<"t", "e", "x", "t", ".">>)
        THEN IF HasSuffix(Lower(rest), <<".", "c", "o", "l", "o", "r">>)
             THEN target("text_colors", Strip(BeforeLastDot(rest)))
             ELSE target("texts", rest)
        ELSE IF HasPrefix(low, <<"s", "l", "o", "t", ".">>) THEN target("slot_paths", rest)
        ELSE target("none", <<>>)

\* render_input_from_row lines 218-244: the dict of one kind, each key bound to
\* the raw cell of the last column that addresses it
ColumnsOf(row, kind) ==
    LET at(k) == {i \in 1..Len(row) : ColumnTarget(row[i].col) = [kind |-> kind, key |-> k]}
        keys == {ColumnTarget(row[i].col).key :
                    i \in {j \in 1..Len(row) : ColumnTarget(row[j].col).kind = kind}}
    IN  [k \in keys |-> row[CHOOSE i \in at(k) : \A j \in at(k) : j <= i].raw]

GetExactCase(row, name) ==
    LET exact == {i \in 1..Len(row) : row[i].col = name}
    IN  IF exact # {} THEN row[CHOOSE i \in exact : TRUE].raw ELSE None

\* render_input_from_row._get_case_insensitive([name])
GetCaseInsensitive(row, name) ==
    LET exact == {i \in 1..Len(row) : row[i].col = name}
        loose == {i \in 1..Len(row) :
                     Lower(CleanCol(row[i].col)) = Lower(CleanCol(name))}
    IN  IF exact # {} THEN row[CHOOSE i \in exact : TRUE].raw
        ELSE IF loose # {}
        THEN row[CHOOSE i \in loose : \A j \in loose : j <= i].raw
        ELSE None

\* The rows: up to MaxCols key-addressed or foreign columns, then the reserved
\* columns, each missing, filled or blank, under names in either letter case.
InitRow ==
    LET cell(c, v) == [col |-> c, raw |-> v]
        columns == {
            cell(<<"t", "e", "x", "t", ".", "a">>, <<"v">>),
            cell(<<"T", "e", "x", "t", ".", "a">>, <<" ", "w", " ">>),
            cell(<<"T", "E", "X", "T", ".", "A">>, <<"u">>),
            cell(<<"t", "e", "x", "t", ".", "a", ".", "c", "o", "l", "o", "r">>, <<"#", "f">>),
            cell(<<"T", "e", "x", "t", ".", "A", ".", "C", "O", "L", "O", "R">>, <<" ", "#", "0">>),
            cell(<<"s", "l", "o", "t", ".", "a">>, <<"g">>),
            cell(<<"<feff>", "S", "l", "o", "t", ".", "B", " ">>, <<"h", " ">>),
            cell(<<"t", "e", "x", "t", ".">>, <<"v">>),
            cell(<<"n", "o", "t", "e">>, <<"v">>)}
        distinct(r) == \A i, j \in 1..Len(r) : i # j => r[i].col # r[j].col
        optional(cells) == {<<>>} \cup {<<c>> : c \in cells}
    IN  /\ NoRender
        /\ NoBatch
        /\ \E keyed \in {r \in SeqsUpTo(columns, MaxCols) : distinct(r)},
              tk \in optional({cell(<<"t", "e", "m", "p", "l", "a", "t", "e", "_", "k", "e", "y">>, <<"t">>),
                               cell(<<"T", "e", "m", "p", "l", "a", "t", "e", "_", "K", "e", "y">>, <<" ", "t">>),
                               cell(<<"t", "e", "m", "p", "l", "a", "t", "e", "_", "k", "e", "y">>, <<" ">>)}),
              on \in optional({cell(<<"O", "U", "T", "P", "U", "T", "_", "N", "A", "M", "E">>, <<"o">>),
                               cell(<<"o", "u", "t", "p", "u", "t", "_", "n", "a", "m", "e">>, <<>>)}),
              bp \in optional({cell(<<"B", "a", "c", "k", "g", "r", "o", "u", "n", "d", "_", "P", "a", "t", "h">>, <<"g">>),
                               cell(<<"b", "a", "c", "k", "g", "r", "o", "u", "n", "d", "_", "p", "a", "t", "h">>, <<" ">>)}) :
            call = [fn |-> "render_input_from_row", row |-> keyed \o tk \o on \o bp]
        /\ ret = [pc |-> "called"]

\* render_input_from_row lines 215-244
RowColumns ==
    /\ call.fn = "render_input_from_row"
    /\ ret.pc = "called"
    /\ ret' = [pc |-> "columns",
               row |-> [template_key |-> GetCaseInsensitive(call.row, <<"t", "e", "m", "p", "l", "a", "t", "e", "_", "k", "e", "y">>),
                        output_name |-> GetCaseInsensitive(call.row, <<"o", "u", "t", "p", "u", "t", "_", "n", "a", "m", "e">>),
                        background_path |->
                            GetCaseInsensitive(call.row, <<"b", "a", "c", "k", "g", "r", "o", "u", "n", "d", "_", "p", "a", "t", "h">>),
                        texts |-> ColumnsOf(call.row, "texts"),
                        text_colors |-> ColumnsOf(call.row, "text_colors"),
                        slot_paths |-> ColumnsOf(call.row, "slot_paths")]]
    /\ UNCHANGED <<template, rinput, pc, idx, canvas, trace, err, disk, batch, call>>

\* render_input_from_row lines 246-264
RowReserved ==
    /\ call.fn = "render_input_from_row"
    /\ ret.pc = "columns"
    /\ LET result == RenderInputFromRow(ret.row)
       IN  ret' = [pc |-> IF result.raised THEN "raised" ELSE "returned",
                   ri |-> result.ri]
    /\ UNCHANGED <<template, rinput, pc, idx, canvas, trace, err, disk, batch, call>>

NextRow == RowColumns \/ RowReserved

SpecRow == InitRow /\ [][NextRow]_vars

\* ------------------------------------------------------ signed floats
\* A float of either sign is [neg, m, e]: the sign and the magnitude as
\* above.  Zero is kept non-negative: the sign of a zero changes no sum,
\* product, comparison or rounding below.

\* float(n) for an int n
FloatOfInt(n) ==
    LET x == IF n < 0 THEN FloatDiv(-n, 1) ELSE FloatDiv(n, 1)
    IN  [neg |-> n < 0, m |-> x.m, e |-> x.e]

\* the one element of a set of one element; Only({F(v) : v \in {e}}) is F(e),
\* with e evaluated once
Only(S) == CHOOSE v \in S : TRUE

\* x + y, x - y, x * y and x / y (y # 0) for op "+", "-", "*" and "/": the
\* exact result, then rounded
Arith(op, left, right) ==
    LET Zeros(n) == [i \in 1..n |-> 0]
        PadLeft(b, n) == Zeros(n - Len(b)) \o b
        \* b from its first 1 on
        StripZeros(b) ==
            IF \A k \in 1..Len(b) : b[k] = 0 THEN <<>>
            ELSE SubSeq(b, CHOOSE k \in 1..Len(b) :
                               b[k] = 1 /\ \A j \in 1..(k - 1) : b[j] = 0, Len(b))
        \* b down to its last 1
        Significant(b) ==
            SubSeq(b, 1, CHOOSE k \in 1..Len(b) :
                             b[k] = 1 /\ \A j \in (k + 1)..Len(b) : b[j] = 0)
        \* a < b for bit strings without leading zeros
        BitsBelow(a, b) ==
            \/ Len(a) < Len(b)
            \/ /\ Len(a) = Len(b)
               /\ \E k \in 1..Len(a) : a[k] < b[k] /\ \A j \in 1..(k - 1) : a[j] = b[j]
        \* a + b + c for bit strings of one length, one bit longer; the
        \* strings are added 24 bits at a time, from the low end
        RECURSIVE BitsAdd(_, _, _)
        BitsAdd(a, b, c) ==
            Only({IF Len(a) <= 24 THEN PadLeft(BitsOfNat(v), Len(a) + 1)
                  ELSE BitsAdd(SubSeq(a, 1, Len(a) - 24), SubSeq(b, 1, Len(a) - 24),
                               v \div 16777216)
                           \o PadLeft(BitsOfNat(v % 16777216), 24) :
                  v \in {NatOfBits(SubSeq(a, Max(1, Len(a) - 23), Len(a)))
                             + NatOfBits(SubSeq(b, Max(1, Len(a) - 23), Len(a))) + c}})
        \* a - b - c for bit strings of one length, a >= b + c
        RECURSIVE BitsSub(_, _, _)
        BitsSub(a, b, c) ==
            Only({IF Len(a) <= 24 THEN PadLeft(BitsOfNat(v), Len(a))
                  ELSE BitsSub(SubSeq(a, 1, Len(a) - 24), SubSeq(b, 1, Len(a) - 24),
                               IF v < 0 THEN 1 ELSE 0)
                           \o PadLeft(BitsOfNat((v + 16777216) % 16777216), 24) :
                  v \in {NatOfBits(SubSeq(a, Max(1, Len(a) - 23), Len(a)))
                             - NatOfBits(SubSeq(b, Max(1, Len(a) - 23), Len(a))) - c}})
        \* the bits of u * c + carry for an int c < 2^13, 13 bits of u at a time
        RECURSIVE TimesBits(_, _, _)
        TimesBits(u, c, carry) ==
            Only({IF Len(u) <= 13 THEN BitsOfNat(v)
                  ELSE TimesBits(SubSeq(u, 1, Len(u) - 13), c, v \div 8192)
                           \o PadLeft(BitsOfNat(v % 8192), 13) :
                  v \in {c * NatOfBits(SubSeq(u, Max(1, Len(u) - 12), Len(u))) + carry}})
        \* the bits of a * v, 13 bits of v at a time
        RECURSIVE Times(_, _)
        Times(a, v) ==
            IF Len(v) <= 13 THEN TimesBits(a, NatOfBits(v), 0)
            ELSE Only({StripZeros(BitsAdd(high, PadLeft(low, Len(high)), 0)) :
                       high \in {Times(a, SubSeq(v, 1, Len(v) - 13)) \o Zeros(13)},
                       low  \in {TimesBits(a, NatOfBits(SubSeq(v, Len(v) - 12, Len(v))), 0)}})
        Shift(r) == IF r = <<>> THEN r ELSE r \o <<0>>
        \* bits followed by the next k bits of r / d, and what is left after
        \* them (r < d)
        RECURSIVE Quotient(_, _, _, _)
        Quotient(r, d, k, bits) ==
            IF k = 0 THEN [bits |-> bits, left |-> r]
            ELSE Only({Quotient(next, d, k - 1, more) :
                       next \in {IF BitsBelow(Shift(r), d) THEN Shift(r)
                                 ELSE StripZeros(BitsSub(Shift(r), PadLeft(d, Len(Shift(r))), 0))},
                       more \in {Append(bits, IF BitsBelow(Shift(r), d) THEN 0 ELSE 1)}})
        \* bits followed by 14 * n bits of r / d, 14 at a time
        RECURSIVE Chunks(_, _, _, _)
        Chunks(r, d, n, bits) ==
            IF n = 0 THEN [bits |-> bits, left |-> r]
            ELSE Only({Chunks(q.left, d, n - 1, q.bits) : q \in {Quotient(r, d, 14, bits)}})
        \* the exact sum of x and y: its sign, its bits and the exponent of
        \* the first of them
        Sum(x, y) ==
            IF y.m = <<>> THEN [neg |-> x.neg, bits |-> x.m, sticky |-> FALSE, e |-> x.e]
            ELSE IF x.m = <<>> THEN [neg |-> y.neg, bits |-> y.m, sticky |-> FALSE, e |-> y.e]
            ELSE Only({Only({[neg |-> IF FloatLess(x, y) THEN y.neg ELSE x.neg,
                              bits |-> r, sticky |-> FALSE,
                              e |-> Min(x.e, y.e) - Precision + Len(r)] :
                             r \in {StripZeros(
                                       IF x.neg = y.neg THEN BitsAdd(u, v, 0)
                                       ELSE IF FloatLess(x, y) THEN BitsSub(v, u, 0)
                                       ELSE BitsSub(u, v, 0))}}) :
                       u \in {PadLeft(x.m \o Zeros(x.e - Min(x.e, y.e)),
                                      Precision + Max(x.e, y.e) - Min(x.e, y.e))},
                       v \in {PadLeft(y.m \o Zeros(y.e - Min(x.e, y.e)),
                                      Precision + Max(x.e, y.e) - Min(x.e, y.e))}})
        Product(x, y) ==
            IF x.m = <<>> \/ y.m = <<>>
            THEN [neg |-> FALSE, bits |-> <<>>, sticky |-> FALSE, e |-> 0]
            ELSE Only({Only({[neg |-> x.neg # y.neg, bits |-> p, sticky |-> FALSE,
                              e |-> x.e - Len(xs) + y.e - Len(ys) + Len(p) + 1] :
                             p \in {IF Len(xs) < Len(ys) THEN Times(ys, xs)
                                    ELSE Times(xs, ys)}}) :
                       xs \in {Significant(x.m)}, ys \in {Significant(y.m)}})
        Ratio(x, y) ==
            IF x.m = <<>> THEN [neg |-> FALSE, bits |-> <<>>, sticky |-> FALSE, e |-> 0]
            ELSE Only({[neg |-> x.neg # y.neg, bits |-> q.bits, sticky |-> q.left # <<>>,
                        e |-> x.e - y.e - (IF BitsBelow(x.m, y.m) THEN 1 ELSE 0)] :
                       q \in {Chunks(StripZeros(
                                         IF BitsBelow(x.m, y.m)
                                         THEN BitsSub(x.m \o <<0>>, <<0>> \o y.m, 0)
                                         ELSE BitsSub(x.m, y.m, 0)),
                                     y.m, 4, <<1>>)}})
        Exact(x, y) ==
            CASE op = "+" -> Sum(x, y)
              [] op = "-" -> Sum(x, [y EXCEPT !.neg = ~y.neg])
              [] op = "*" -> Product(x, y)
              [] op = "/" -> Ratio(x, y)
    IN  Only({IF r.bits = <<>> THEN [neg |-> FALSE, m |-> <<>>, e |-> 0]
              ELSE Only({[neg |-> r.neg, m |-> f.m, e |-> f.e] :
                         f \in {RoundNearestEven(r.bits, r.sticky, r.e)}}) :
              r \in {Only({Exact(x, y) : x \in {left}, y \in {right}})}})

\* x < y
Below(x, y) ==
    IF x.neg /\ y.neg THEN FloatLess(y, x)
    ELSE IF x.neg # y.neg THEN x.neg
    ELSE FloatLess(x, y)

\* the ceiling taken one too high
CeilAbove(x) == FloatTrunc(x) + 1

\* int(math.ceil(x))
Ceil(x) ==
    LET whole == FloatTrunc(x)
        exact == \/ x.m = <<>>
                 \/ x.e >= 0 /\ \A k \in (x.e + 2)..Precision : x.m[k] = 0
    IN  IF x.neg THEN -whole ELSE IF exact THEN whole ELSE whole + 1

\* int(round(x)): to the nearest int, a tie to the even one
Round(x) ==
    LET whole == FloatTrunc(x)
        half  == IF x.m = <<>> \/ x.e < -1 THEN 0
                 ELSE IF x.e = -1 THEN 1
                 ELSE IF x.e + 2 > Precision THEN 0 ELSE x.m[x.e + 2]
        more  == x.m # <<>> /\ x.e >= -1 /\ \E k \in (x.e + 3)..Precision : x.m[k] = 1
        up    == half = 1 /\ (more \/ whole % 2 = 1)
        n     == IF up THEN whole + 1 ELSE whole
    IN  IF x.neg THEN -n ELSE n

\* --------------------------------------------------------- place_slot
\* An angle is <<>> for None and <<d>> for d whole degrees, a point a pair of
\* floats.

\* angle or 0.0
OrZero(angle) == IF angle = <<>> THEN 0 ELSE angle[1]

\* the angle as it is
NoClamp(v) == v

\* _project_slot_quad lines 186-187: max(-89.0, min(89.0, v))
Clamp(v) == Max(-89, Min(89, v))

\* math.cos(math.radians(deg)) and math.sin(math.radians(deg)) as the C
\* library gives them, for the angles that occur here
Trig(deg) ==
    LET \* the double of significand hi * 2^26 + lo and exponent e
        Double(neg, hi, lo, e) ==
            LET lobits == BitsOfNat(lo)
            IN  [neg |-> neg, e |-> e,
                 m |-> BitsOfNat(hi) \o [i \in 1..(26 - Len(lobits)) |-> 0] \o lobits]
        a   == IF deg < 0 THEN -deg ELSE deg
        cos == CASE a = 0   -> FloatOfInt(1)
                 [] a = 45  -> Double(FALSE, 94906265, 41892813, -1)
                 [] a = 89  -> Double(FALSE, 74957514, 59366711, -6)
                 [] a = 90  -> Double(FALSE, 74025356, 51665927, -54)
                 [] a = 120 -> Double(TRUE, 134217727, 67108860, -2)
                 [] a = 180 -> FloatOfInt(-1)
        sin == CASE a = 0   -> FloatOfInt(0)
                 [] a = 45  -> Double(FALSE, 94906265, 41892812, -1)
                 [] a = 89  -> Double(FALSE, 134197285, 66432906, -1)
                 [] a = 90  -> FloatOfInt(1)
                 [] a = 120 -> Double(FALSE, 116235962, 5786795, -1)
                 [] a = 180 -> Double(FALSE, 74025356, 51665927, -53)
    IN  [cos |-> cos, sin |-> [sin EXCEPT !.neg = deg < 0]]

\* _project_slot_quad(w, h, rotate_x, rotate_y, rotate_z, camera_k = 2.5): the
\* angles used and the four projected corners
ProjectSlotQuad(w, h, rotate_x, rotate_y, rotate_z) ==
    LET rot_z(p, t) == <<Arith("-", Arith("*", p[1], t.cos), Arith("*", p[2], t.sin)),
                         Arith("+", Arith("*", p[1], t.sin), Arith("*", p[2], t.cos)),
                         p[3]>>
        rot_x(p, t) == <<p[1],
                         Arith("-", Arith("*", p[2], t.cos), Arith("*", p[3], t.sin)),
                         Arith("+", Arith("*", p[2], t.sin), Arith("*", p[3], t.cos))>>
        rot_y(p, t, zero) ==
            <<Arith("+", Arith("*", p[1], t.cos), Arith("*", p[3], t.sin)),
              p[2],
              Arith("+", Arith("*", Arith("-", zero, p[1]), t.sin), Arith("*", p[3], t.cos))>>
        project(p, d, eps, cx, cy, zero) ==
            Only({<<Arith("+", Arith("*", p[1], s), cx), Arith("+", Arith("*", p[2], s), cy)>> :
                  s \in {Arith("/", d,
                               Only({IF Below([diff EXCEPT !.neg = FALSE], eps)
                                     THEN (IF diff.neg THEN Arith("-", zero, eps) ELSE eps)
                                     ELSE diff :
                                     diff \in {Arith("-", d, p[3])}}))}})
    IN  Only({Only({[rx |-> rx, ry |-> ry, rz |-> rz,
                     out |-> [k \in 1..4 |->
                                 Only({project(c, d, eps, cx, cy, zero) :
                                       c \in {rot_y(b, ty, zero) :
                                       b \in {rot_x(a, tx) :
                                       a \in {rot_z(corners[k], tz)}}}})]] :
                    tx \in {Trig(rx)}, ty \in {Trig(ry)}, tz \in {Trig(rz)},
                    corners \in {Only({<< <<ncx, ncy, zero>>, <<cx, ncy, zero>>,
                                          <<cx, cy, zero>>, <<ncx, cy, zero>> >> :
                                       ncx \in {Arith("-", zero, cx)},
                                       ncy \in {Arith("-", zero, cy)}})}}) :
              zero \in {FloatOfInt(0)},
              cx \in {Arith("/", FloatOfInt(w), FloatOfInt(2))},
              cy \in {Arith("/", FloatOfInt(h), FloatOfInt(2))},
              rx \in {Clamp(OrZero(rotate_x))},
              ry \in {Clamp(OrZero(rotate_y))},
              rz \in {OrZero(rotate_z)},
              d \in {Only({IF Below(FloatOfInt(1), far) THEN far ELSE FloatOfInt(1) :
                           far \in {Arith("*", Arith("/", FloatOfInt(5), FloatOfInt(2)),
                                          FloatOfInt(Max(w, h)))}})},
              eps \in {Arith("/", FloatOfInt(1), FloatOfInt(1000000))}})

\* the calls: unrotated slots of every size and padding, squares turned in
\* the plane, small tilted slots
InitSlot ==
    /\ NoRender /\ NoBatch
    /\ \/ call \in [fn : {"place_slot"}, exists : BOOLEAN, box : {<<0, 0>>, <<2, 1>>},
                    w : 1..MaxWidth, h : 1..MaxHeight, padding : {0, 1, 2},
                    rotation : {<<>>, <<0>>}, rotate_x : {<<0>>}, rotate_y : {<<0>>}]
       \/ \E side \in 1..MaxWidth :
              call \in [fn : {"place_slot"}, exists : {TRUE}, box : {<<2, 1>>},
                        w : {side}, h : {side}, padding : {0, 1},
                        rotation : {<<90>>, <<-90>>, <<180>>},
                        rotate_x : {<<0>>}, rotate_y : {<<0>>}]
       \/ call \in [fn : {"place_slot"}, exists : {TRUE}, box : {<<2, 1>>},
                    w : 1..MaxSlots, h : 1..MaxSlots, padding : {0},
                    rotation : {<<0>>, <<90>>},
                    rotate_x : {<<45>>, <<120>>}, rotate_y : {<<>>, <<-120>>}]
       \/ \E side \in 1..MaxSlots :
              call \in [fn : {"_project_slot_quad"}, w : {side}, h : {side},
                        rotate_x : {<<>>, <<45>>, <<120>>, <<-120>>},
                        rotate_y : {<<>>, <<0>>, <<-120>>},
                        rotate_z : {<<>>, <<90>>, <<180>>}]
    /\ ret = [pc |-> "called"]

\* the layer with the target size taken without its floor of one pixel
SlotLayerNoFloor ==
    /\ call.fn = "place_slot"
    /\ ret.pc = "called"
    /\ \/ /\ ~call.exists
          /\ ret' = [pc |-> "returned", drawn |-> FALSE]
       \/ /\ call.exists
          /\ LET pad == call.padding
                 target_size == <<call.w - pad * 2, call.h - pad * 2>>
             IN  ret' = [pc |-> "layer", target_size |-> target_size,
                         slot_layer |-> [size |-> <<call.w, call.h>>, fill |-> "transparent",
                                         rounded |-> target_size, dest |-> <<pad, pad>>]]
    /\ UNCHANGED <<template, rinput, pc, idx, canvas, trace, err, disk, batch, call>>

\* place_slot lines 250-260: the content is fitted into the padded box and
\* composed into a transparent layer of the size of the slot; _resize_fit
\* returns a raster of the target size, _round_corners keeps the size
SlotLayer ==
    /\ call.fn = "place_slot"
    /\ ret.pc = "called"
    /\ \/ /\ ~call.exists
          /\ ret' = [pc |-> "returned", drawn |-> FALSE]
       \/ /\ call.exists
          /\ LET pad == call.padding
                 target_size == <<Max(1, call.w - pad * 2), Max(1, call.h - pad * 2)>>
             IN  ret' = [pc |-> "layer", target_size |-> target_size,
                         slot_layer |-> [size |-> <<call.w, call.h>>, fill |-> "transparent",
                                         rounded |-> target_size, dest |-> <<pad, pad>>]]
    /\ UNCHANGED <<template, rinput, pc, idx, canvas, trace, err, disk, batch, call>>

\* place_slot lines 262-267 and 301-302: a slot without rotation is
\* composed at its place, any other is projected
SlotProject ==
    /\ call.fn = "place_slot"
    /\ ret.pc = "layer"
    /\ LET rotate_x == OrZero(call.rotate_x)
           rotate_y == OrZero(call.rotate_y)
           rotate_z == OrZero(call.rotation)
       IN  \/ /\ rotate_x = 0 /\ rotate_y = 0 /\ rotate_z = 0
              /\ ret' = [pc |-> "returned", drawn |-> TRUE, slot_layer |-> ret.slot_layer,
                         size |-> ret.slot_layer.size, dest |-> call.box]
           \/ /\ ~(rotate_x = 0 /\ rotate_y = 0 /\ rotate_z = 0)
              /\ ret' = [pc |-> "projected", slot_layer |-> ret.slot_layer,
                         quad |-> ProjectSlotQuad(call.w, call.h, <<rotate_x>>, <<rotate_y>>,
                                                  <<rotate_z>>)]
    /\ UNCHANGED <<template, rinput, pc, idx, canvas, trace, err, disk, batch, call>>

\* place_slot lines 268-300: the bounds of the projected quad, the quad
\* shifted into them at twice the size, and the place of the warped layer
SlotBounds ==
    /\ call.fn = "place_slot"
    /\ ret.pc = "projected"
    /\ LET Least(q, c) == CHOOSE v \in {q[k][c] : k \in 1..4} :
                              \A k \in 1..4 : ~Below(q[k][c], v)
           Greatest(q, c) == CHOOSE v \in {q[k][c] : k \in 1..4} :
                                 \A k \in 1..4 : ~Below(v, q[k][c])
       IN  \E dst_quad \in {ret.quad.out} :
           \E min_x \in {Least(dst_quad, 1)}, min_y \in {Least(dst_quad, 2)} :
           \E max_x \in {Greatest(dst_quad, 1)}, max_y \in {Greatest(dst_quad, 2)} :
           \E factor \in {FloatOfInt(2)} :
               ret' = [pc |-> "returned", drawn |-> TRUE, slot_layer |-> ret.slot_layer,
                       quad |-> ret.quad,
                       size |-> <<Max(1, Ceil(Arith("-", max_x, min_x))),
                                  Max(1, Ceil(Arith("-", max_y, min_y)))>>,
                       dst_quad_shifted_hi |->
                           [k \in 1..4 |->
                               <<Arith("*", Arith("-", dst_quad[k][1], min_x), factor),
                                 Arith("*", Arith("-", dst_quad[k][2], min_y), factor)>>],
                       dest |-> <<Round(Arith("+", FloatOfInt(call.box[1]), min_x)),
                                  Round(Arith("+", FloatOfInt(call.box[2]), min_y))>>]
    /\ UNCHANGED <<template, rinput, pc, idx, canvas, trace, err, disk, batch, call>>

\* _project_slot_quad called on its own
ProjectCall ==
    /\ call.fn = "_project_slot_quad"
    /\ ret.pc = "called"
    /\ ret' = [pc |-> "returned",
               quad |-> ProjectSlotQuad(call.w, call.h, call.rotate_x, call.rotate_y,
                                        call.rotate_z)]
    /\ UNCHANGED <<template, rinput, pc, idx, canvas, trace, err, disk, batch, call>>

SpecSlot == InitSlot /\ [][SlotLayer \/ SlotProject \/ SlotBounds \/ ProjectCall]_vars

\* ---------------------------------------------------- draw_text_block
\* draw_text_block(img, block, text): the call of wrap_lines inside it, with the
\* box (x, y, w, h) of the block, the height of the font and the line spacing
\* num / den of the style. total_height (line 70) is computed and never used.

\* the loop of lines 72-88 with lines below the box left out
DrawLineClipped ==
    /\ call.fn = "wrap_lines"
    /\ "line_height" \in DOMAIN call
    /\ ret.pc \in {"returned", "draw"}
    /\ ret.n < Len(ret.result)
    /\ LET line == ret.result[ret.n + 1]
           offset_y == IF ret.pc = "returned" THEN call.y ELSE ret.offset_y
           advance == FloatTrunc(FloatMulInt(call.line_height,
                                             FloatDiv(call.line_spacing[1],
                                                      call.line_spacing[2])))
       IN  ret' = [ret EXCEPT !.pc = "draw", !.n = @ + 1,
                              !.drawn = IF offset_y > call.y + call.h THEN @
                                        ELSE Append(@, [line |-> line,
                                                        pos |-> <<call.x, offset_y>>]),
                              !.offset_y = offset_y + advance]
    /\ UNCHANGED <<template, rinput, pc, idx, canvas, trace, err, disk, batch, call>>

InitDraw ==
    /\ NoRender
    /\ NoBatch
    /\ call \in [fn : {"wrap_lines"}, content : Contents, max_width : {2}, w : {3},
                  x : {1}, y : {1}, h : {2}, align : {"left", "center", "right"},
                  line_height : {5}, line_spacing : {<<1, 2>>, <<6, 5>>}]
    /\ ret = [pc |-> "called", words |-> <<>>, i |-> 0, lines |-> <<>>,
              current |-> <<>>, result |-> <<>>, n |-> 0, offset_y |-> 0, drawn |-> <<>>]

\* draw_text_block lines 71-88: one iteration of the loop over the lines
DrawLine ==
    /\ call.fn = "wrap_lines"
    /\ "line_height" \in DOMAIN call
    /\ ret.pc \in {"returned", "draw"}
    /\ ret.n < Len(ret.result)
    /\ LET line == ret.result[ret.n + 1]
           offset_y == IF ret.pc = "returned" THEN call.y ELSE ret.offset_y
           text_w == Measure(line)
           slack == call.w - text_w
           pos_x == IF call.align = "center"
                    THEN call.x + (IF slack >= 0 THEN slack \div 2 ELSE -((-slack) \div 2))
                    ELSE IF call.align = "right" THEN call.x + slack
                    ELSE call.x
           advance == FloatTrunc(FloatMulInt(call.line_height,
                                             FloatDiv(call.line_spacing[1],
                                                      call.line_spacing[2])))
       IN  ret' = [ret EXCEPT !.pc = "draw", !.n = @ + 1,
                              !.drawn = Append(@, [line |-> line, pos |-> <<pos_x, offset_y>>]),
                              !.offset_y = offset_y + advance]
    /\ UNCHANGED <<template, rinput, pc, idx, canvas, trace, err, disk, batch, call>>

SpecDraw == InitDraw /\ [][WrapSplit \/ WrapWord \/ WrapReturn \/ DrawLine]_vars

\* -------------------------------------------------------- template_to_dict
\* template_to_dict lines 80-116: the slot and text objects written for a
\* template; a slot object has "radius" and no "radii", "rotate_x" or
\* "rotate_y"
TemplateToDict(slots, texts) ==
    [slots |-> [i \in 1..Len(slots) |->
                   [key |-> Json("str", 0, slots[i].key, <<>>),
                    radius |-> Json("int", slots[i].radius, <<>>, <<>>)]],
     texts |-> [i \in 1..Len(texts) |-> [key |-> Json("str", 0, texts[i].key, <<>>)]]]

\* TemplateRegistry.save_template lines 51-53: the template is written as JSON
WriteTemplate ==
    /\ call.fn = "load_template_from_json"
    /\ ret.pc = "save_template"
    /\ ret' = [pc |-> "written", slots |-> ret.slots, texts |-> ret.texts,
               file |-> TemplateToDict(ret.slots, ret.texts)]
    /\ UNCHANGED <<template, rinput, pc, idx, canvas, trace, err, disk, batch, call>>

\* TemplateRegistry.load_dir lines 20-23: the file is read back
ReadTemplate ==
    /\ call.fn = "load_template_from_json"
    /\ ret.pc = "written"
    /\ ret' = [pc |-> "reloaded", slots |-> ret.slots, texts |-> ret.texts,
               reloaded |-> [slots |-> LoadSlots(ret.file.slots),
                             texts |-> LoadTexts(ret.file.texts)]]
    /\ UNCHANGED <<template, rinput, pc, idx, canvas, trace, err, disk, batch, call>>

SpecReload == InitLoad /\ [][NextLoad \/ WriteTemplate \/ ReadTemplate]_vars

\* ------------------------------------------------------- TemplateEditor
\* The editor's state: the slot and text objects of self.state, each with its
\* key and the x of its box (boxes are one pixel wide, the canvas scale is 1),
\* self.selected (<<>> for None, else <<kind, index>> with the index counted
\* from 0) and self.drag_start (<<>> for None, else <<event.x, x>>).  op is
\* the handler that ran last, before the lists and selection it found, and n
\* the number of handler calls so far.

\* _delete_selected popping the last element of the list
DeleteLast ==
    /\ call.fn = "TemplateEditor"
    /\ ret.n < MaxOps
    /\ \/ /\ ret.selected = <<>>
          /\ ret' = [ret EXCEPT !.op = "nothing to delete", !.before = <<>>, !.n = @ + 1]
       \/ /\ ret.selected # <<>>
          /\ LET kind == ret.selected[1]
                 pop(items) == SubSeq(items, 1, Len(items) - 1)
             IN  ret' = [ret EXCEPT !.slots = IF kind = "slot" THEN pop(@) ELSE @,
                                    !.texts = IF kind = "text" THEN pop(@) ELSE @,
                                    !.selected = <<>>,
                                    !.op = "_delete_selected",
                                    !.before = <<ret.slots, ret.texts, ret.selected>>,
                                    !.n = @ + 1]
    /\ UNCHANGED <<template, rinput, pc, idx, canvas, trace, err, disk, batch, call>>

\* __init__ lines 43-47: the editor opens on a copy of the template data,
\* nothing selected
InitEditor ==
    LET slot(key) == [key |-> key, x |-> 0]
        Main  == <<"M", "a", "i", "n">>
        Title == <<"T", "i", "t", "l", "e">>
        text1 == <<"t", "e", "x", "t", "-", "1">>
    IN  /\ NoRender
        /\ NoBatch
        /\ call \in {[fn |-> "TemplateEditor", slots |-> <<>>, texts |-> <<>>],
                      [fn |-> "TemplateEditor", slots |-> <<slot(<<>>)>>,
                       texts |-> <<slot(text1), slot(Title)>>],
                      [fn |-> "TemplateEditor", slots |-> <<slot(Main), slot(Lower(Main))>>,
                       texts |-> <<slot(<<>>)>>],
                      [fn |-> "TemplateEditor", slots |-> <<slot(Lower(Main)), slot(<<" ">>)>>,
                       texts |-> <<slot(Title), slot(Lower(Title))>>]}
        /\ ret = [pc |-> "open", slots |-> call.slots, texts |-> call.texts,
                  selected |-> <<>>, drag_start |-> <<>>, op |-> "__init__",
                  before |-> <<>>, n |-> 0]

\* _add_slot lines 268-273 and _add_text lines 275-288: a new element named
\* after the length of its list, appended and selected
AddElement(kind) ==
    /\ call.fn = "TemplateEditor"
    /\ ret.n < MaxOps
    /\ LET items == IF kind = "slot" THEN ret.slots ELSE ret.texts
           digit(n) == <<(<<"0", "1", "2", "3", "4", "5", "6", "7", "8", "9">>)[n + 1]>>
           stem == IF kind = "slot" THEN <<"s", "l", "o", "t", "-">>
                   ELSE <<"t", "e", "x", "t", "-">>
           added == Append(items, [key |-> stem \o digit(Len(items) + 1), x |-> 1])
       IN  /\ Len(items) < (IF kind = "slot" THEN MaxSlots ELSE MaxTexts)
           /\ ret' = [ret EXCEPT !.slots = IF kind = "slot" THEN added ELSE @,
                                 !.texts = IF kind = "text" THEN added ELSE @,
                                 !.selected = <<kind, Len(added) - 1>>,
                                 !.op = "_add_" \o kind, !.before = <<>>, !.n = @ + 1]
    /\ UNCHANGED <<template, rinput, pc, idx, canvas, trace, err, disk, batch, call>>

\* _delete_selected lines 290-297
DeleteSelected ==
    /\ call.fn = "TemplateEditor"
    /\ ret.n < MaxOps
    /\ \/ /\ ret.selected = <<>>
          /\ ret' = [ret EXCEPT !.op = "nothing to delete", !.before = <<>>, !.n = @ + 1]
       \/ /\ ret.selected # <<>>
          /\ LET kind == ret.selected[1]
                 at == ret.selected[2] + 1
                 pop(items) == SubSeq(items, 1, at - 1) \o SubSeq(items, at + 1, Len(items))
             IN  ret' = [ret EXCEPT !.slots = IF kind = "slot" THEN pop(@) ELSE @,
                                    !.texts = IF kind = "text" THEN pop(@) ELSE @,
                                    !.selected = <<>>,
                                    !.op = "_delete_selected",
                                    !.before = <<ret.slots, ret.texts, ret.selected>>,
                                    !.n = @ + 1]
    /\ UNCHANGED <<template, rinput, pc, idx, canvas, trace, err, disk, batch, call>>

\* _on_list_select lines 299-310: the list box holds the slots, then the
\* texts (redraw calls _sync_list after every change); a row is picked
OnListSelect ==
    /\ call.fn = "TemplateEditor"
    /\ ret.n < MaxOps
    /\ \E row \in 0..(Len(ret.slots) + Len(ret.texts) - 1) :
         LET slots_len == Len(ret.slots)
         IN  ret' = [ret EXCEPT !.selected = IF row < slots_len THEN <<"slot", row>>
                                             ELSE <<"text", row - slots_len>>,
                                !.op = "_on_list_select", !.before = <<>>, !.n = @ + 1]
    /\ UNCHANGED <<template, rinput, pc, idx, canvas, trace, err, disk, batch, call>>

\* _on_canvas_click lines 393-405: the topmost box under the pointer is
\* selected and the drag starts there; a click on no box clears the selection
OnCanvasClick ==
    /\ call.fn = "TemplateEditor"
    /\ ret.n < MaxOps
    /\ \E x \in 0..3 :
         LET boxes == [k \in 1..Len(ret.slots) |-> <<"slot", k - 1, ret.slots[k].x>>]
                          \o [k \in 1..Len(ret.texts) |-> <<"text", k - 1, ret.texts[k].x>>]
             hits == {k \in 1..Len(boxes) : boxes[k][3] <= x /\ x <= boxes[k][3] + 1}
         IN  \/ /\ hits # {}
                /\ LET top == boxes[CHOOSE k \in hits : \A j \in hits : j <= k]
                   IN  ret' = [ret EXCEPT !.selected = <<top[1], top[2]>>,
                                          !.drag_start = <<x, top[3]>>,
                                          !.op = "_on_canvas_click", !.before = <<>>, !.n = @ + 1]
             \/ /\ hits = {}
                /\ ret' = [ret EXCEPT !.selected = <<>>, !.op = "_on_canvas_click",
                                      !.before = <<>>, !.n = @ + 1]
    /\ UNCHANGED <<template, rinput, pc, idx, canvas, trace, err, disk, batch, call>>

\* _on_canvas_drag lines 407-420 and _on_canvas_release lines 422-423: the
\* selected box follows the pointer; the canvas is two pixels wide
OnCanvasDrag ==
    /\ call.fn = "TemplateEditor"
    /\ ret.n < MaxOps
    /\ \/ /\ ret.drag_start # <<>>
          /\ ret.selected # <<>>
          /\ \E x \in 0..3 :
               LET kind == ret.selected[1]
                   at == ret.selected[2] + 1
                   new_x == ret.drag_start[2] + (x - ret.drag_start[1])
                   moved(items) == [items EXCEPT ![at].x = IF new_x < 0 THEN 0 ELSE new_x]
               IN  /\ new_x <= 1
                   /\ ret' = [ret EXCEPT !.slots = IF kind = "slot" THEN moved(@) ELSE @,
                                         !.texts = IF kind = "text" THEN moved(@) ELSE @,
                                         !.op = "_on_canvas_drag", !.before = <<>>, !.n = @ + 1]
       \/ /\ ret.drag_start # <<>>
          /\ ret' = [ret EXCEPT !.drag_start = <<>>, !.op = "_on_canvas_release",
                                !.before = <<>>, !.n = @ + 1]
    /\ UNCHANGED <<template, rinput, pc, idx, canvas, trace, err, disk, batch, call>>

\* _normalize_keys lines 489-540
NormalizeKeys ==
    /\ call.fn = "TemplateEditor"
    /\ ret.n < MaxOps
    /\ LET digit(n) == <<(<<"0", "1", "2", "3", "4", "5", "6", "7", "8", "9">>)[n + 1]>>
           main == <<"m", "a", "i", "n">>
           preferred == << <<"t", "i", "t", "l", "e">>,
                           <<"s", "u", "b", "t", "i", "t", "l", "e">>,
                           <<"b", "o", "d", "y">> >>
           \* while nk.lower() in used: nk = f"{base}_{suffix}"; suffix += 1
           RECURSIVE Unused(_, _, _, _)
           Unused(nk, base, suffix, used) ==
               IF Lower(nk) \in used
               THEN Unused(base \o <<"_">> \o digit(suffix), base, suffix + 1, used)
               ELSE nk
           SlotName(k) ==
               LET kl == Lower(k)
               IN  IF kl \in {<<"b", "a", "c", "k", "g", "r", "o", "u", "n", "d">>, <<"b", "g">>}
                   THEN <<"b", "a", "c", "k", "g", "r", "o", "u", "n", "d">>
                   ELSE IF kl \in {<<"g", "l", "a", "s", "s">>, <<"o", "v", "e", "r", "l", "a", "y">>}
                   THEN <<"o", "v", "e", "r", "l", "a", "y">>
                   ELSE IF kl \in {<<"s", "c", "r", "e", "e", "n", "s", "h", "o", "t", "-", "1">>,
                                   <<"s", "c", "r", "e", "e", "n", "s", "h", "o", "t">>,
                                   <<"u", "i", "-", "1">>, <<"u", "i">>, main,
                                   <<"s", "l", "o", "t", "-", "1">>}
                   THEN main
                   ELSE IF k = <<>> THEN main ELSE k
           RECURSIVE Slots(_, _, _)
           Slots(items, used, done) ==
               IF items = <<>> THEN done
               ELSE LET nk == SlotName(Strip(Head(items).key))
                        key == Unused(nk, nk, 2, used)
                    IN  Slots(Tail(items), used \cup {Lower(key)},
                              Append(done, [Head(items) EXCEPT !.key = key]))
           Named(kl) == kl \in {preferred[1], preferred[2], preferred[3]}
           Numbered(kl) ==
               \/ Len(kl) >= 5 /\ SubSeq(kl, 1, 5) = <<"t", "e", "x", "t", "-">>
               \/ kl \in {<<"t", "e", "x", "t">>, <<>>}
           RECURSIVE Texts(_, _, _, _)
           Texts(items, used, pref_idx, done) ==
               IF items = <<>> THEN done
               ELSE LET k == Strip(Head(items).key)
                        kl == Lower(k)
                        next == preferred[Min(pref_idx, 2) + 1]
                        nk == IF Named(kl) THEN kl
                              ELSE IF Numbered(kl) THEN next
                              ELSE IF k = <<>> THEN next ELSE k
                        key == Unused(nk, nk, 2, used)
                    IN  Texts(Tail(items), used \cup {Lower(key)},
                              IF Named(kl) THEN pref_idx ELSE pref_idx + 1,
                              Append(done, [Head(items) EXCEPT !.key = key]))
       IN  ret' = [ret EXCEPT !.slots = Slots(@, {}, <<>>),
                              !.texts = Texts(@, {}, 0, <<>>),
                              !.op = "_normalize_keys", !.before = <<>>, !.n = @ + 1]
    /\ UNCHANGED <<template, rinput, pc, idx, canvas, trace, err, disk, batch, call>>

SpecEditor ==
    InitEditor /\ [][AddElement("slot") \/ AddElement("text") \/ DeleteSelected
                        \/ OnListSelect \/ OnCanvasClick \/ OnCanvasDrag
                        \/ NormalizeKeys]_vars

\* ================================================================= claims
\* compose_cover has finished (returned or raised)
Composed == pc \in {"composed", "save", "done"} \/ err # ""
ComposeRaised == err \in {"background", "slot"}

\* the steps of a complete compose_cover call on template t, in order
Canonical(t) ==
    <<Step("background", "")>>
    \o [i \in 1..Len(t.slots) |-> Step("slot", t.slots[i].key)]
    \o [i \in 1..Len(t.texts) |-> Step("text", t.texts[i].key)]

IsPrefix(p, q) == Len(p) <= Len(q) /\ p = SubSeq(q, 1, Len(p))

\* C1: compose_cover is strictly linear.  The steps performed so far are always
\* an initial part of: the background once, then every slot in template list
\* order, then every text block in template list order; and a call that returns
\* has performed exactly that sequence, with no step repeated.
C1_LinearOrder ==
    pc \notin {"batch_start", "next_row", "batch_done", "batch_aborted"} =>
        /\ IsPrefix(trace, Canonical(template))
        /\ (Composed /\ ~ComposeRaised) => trace = Canonical(template)
        /\ pc = "start" <=> trace = <<>>

C1_Witness ==
    /\ pc = "composed"
    /\ Len(template.slots) >= 2
    /\ Len(template.texts) >= 2
    /\ Len(trace) = 1 + Len(template.slots) + Len(template.texts)

\* the call wrote to the file system: it created the parent directory or
\* wrote (all or part of) the output file
WroteSomething == disk.dir = "created" \/ disk.file \in {"partial", "png"}

\* C2: render_to_file never partially writes.  A call that ends either wrote the
\* full raster to output_path, or raised and wrote nothing at all to the file
\* system (no directory, no output file, no partial file).
C2_NoPartialWrite ==
    /\ pc = "done" => disk.file = "png"
    /\ pc = "error" => ~WroteSomething

\* C3: run_batch attempts every row in order and goes on past a row that fails.
\* The rows attempted so far are rows 1..k in order; when the batch ends every
\* row was attempted, a row counts as failed to parse exactly when
\* render_input_from_row raises on it, and the tally is <<number of rows whose
\* parse and render both succeeded, number of rows>>.
C3_BatchTally ==
    /\ \A i \in 1..Len(outcome) : outcome[i].row = i
    /\ pc = "batch_done" =>
        /\ Len(outcome) = Len(rows)
        /\ \A i \in 1..Len(rows) :
              outcome[i].result = "parse_failed" <=> RenderInputFromRow(rows[i]).raised
        /\ tally = <<Cardinality({i \in 1..Len(outcome) : outcome[i].result = "ok"}),
                     Len(rows)>>

C3_Witness ==
    /\ pc = "batch_done"
    /\ Len(rows) >= 2
    /\ outcome[1].result \in {"parse_failed", "render_failed"}
    /\ outcome[2].result = "ok"
    /\ tally[1] = 1

\* C4: compose_cover mutates neither argument.  No step of a call changes the
\* template or the render input, also not the step that draws a text block
\* with a colour override (the override goes to a copy of the block).
C4_InputsUnchanged == [][template' = template /\ rinput' = rinput]_vars

\* a text block was drawn in an override colour its template does not have
C4_Witness ==
    /\ pc = "composed"
    /\ \E i \in 1..Len(canvas) :
          /\ canvas[i].op = "text"
          /\ canvas[i].color = Red
          /\ \A j \in 1..Len(template.texts) : template.texts[j].style.color = Black

\* the slot of template t that produced a slot layer
SlotOfLayer(t, layer) == t.slots[CHOOSE i \in 1..Len(t.slots) : t.slots[i].key = layer.key]

\* C5: a slot with per-corner radii is rounded with radii, not with radius.
\* Every slot layer on the canvas whose slot has radii set carries the rounding
\* given by radii.
C5_RadiiPrecedence ==
    \A i \in 1..Len(canvas) :
        (canvas[i].op = "slot" /\ SlotOfLayer(template, canvas[i]).radii # <<>>) =>
            canvas[i].round = SlotOfLayer(template, canvas[i]).radii

\* slot i of the template is bound to a file that exists but is no image
CorruptSlot(i) ==
    /\ template.slots[i].key \in DOMAIN rinput.slot_paths
    /\ Exists(rinput.slot_paths[template.slots[i].key])
    /\ ~ImageOpens(rinput.slot_paths[template.slots[i].key])

\* C6: a slot bound to an existing but undecodable image is skipped silently.
\* compose_cover does not raise because of it and still performs every
\* remaining slot and text step.
C6_CorruptSlotSkipped ==
    (Composed /\ err # "background" /\ \E i \in 1..Len(template.slots) : CorruptSlot(i)) =>
        /\ err # "slot"
        /\ trace = Canonical(template)

\* the slot has no entry in slot_paths, an empty one, or one naming no file
Unbound(slot, ri) ==
    \/ slot.key \notin DOMAIN ri.slot_paths
    \/ ri.slot_paths[slot.key] = <<>>
    \/ ~Exists(ri.slot_paths[slot.key])

\* C7: an unbound slot (no entry, empty entry, or a file that does not exist)
\* is skipped.  Its step leaves the canvas as it was, does not raise, and
\* the pipeline goes on to the next slot, or to the texts after the last slot.
C7_UnboundSlotSkipped ==
    [][(pc = "slots" /\ Unbound(template.slots[idx], rinput)) =>
        /\ canvas' = canvas
        /\ err' = err
        /\ trace' = Append(trace, Step("slot", template.slots[idx].key))
        /\ IF idx < Len(template.slots)
           THEN pc' = "slots" /\ idx' = idx + 1
           ELSE pc' = AfterSlots(template)]_vars

\* the first slot was skipped as unbound and the second is about to be placed
C7_Witness ==
    /\ pc = "slots"
    /\ idx = 2
    /\ Unbound(template.slots[1], rinput)
    /\ template.slots[1].key \in DOMAIN rinput.slot_paths
    /\ rinput.slot_paths[template.slots[1].key] = NoFile
    /\ \A i \in 1..Len(canvas) : canvas[i].op # "slot"

\* the keys of the template's slots and text blocks
SlotKeysOf(t) == {t.slots[i].key : i \in 1..Len(t.slots)}
TextKeysOf(t) == {t.texts[i].key : i \in 1..Len(t.texts)}

Restrict(d, keys) == [k \in DOMAIN d \cap keys |-> d[k]]

\* the render input without the entries whose key the template does not have
KnownOnly(ri, t) ==
    [ri EXCEPT !.texts = Restrict(@, TextKeysOf(t)),
               !.text_colors = Restrict(@, TextKeysOf(t)),
               !.slot_paths = Restrict(@, SlotKeysOf(t))]

\* C8: entries of texts, text_colors and slot_paths under keys the template does
\* not have do not affect the output: the outcome of compose_cover (the raster,
\* or the raise) is the one compose_cover has on the input without those
\* entries, so any two inputs that differ only in them give the same raster.
\* A text block whose key is missing from texts is drawn with the empty string.
C8_UnknownKeysIgnored ==
    (Composed /\ pc \notin {"batch_start", "next_row", "batch_done", "batch_aborted"}) =>
        /\ LET r == ComposeCover(KnownOnly(rinput, template), template) IN
             /\ r.raised = ComposeRaised
             /\ canvas = r.img
        /\ \A i \in 1..Len(canvas) :
              (canvas[i].op = "text" /\ canvas[i].key \notin DOMAIN rinput.texts) =>
                  canvas[i].text = <<>>

\* a call has returned whose input had unknown keys in all three maps and
\* lacked the key of a text block
C8_Witness ==
    /\ pc = "composed"
    /\ DOMAIN rinput.slot_paths \ SlotKeysOf(template) # {}
    /\ DOMAIN rinput.texts \ TextKeysOf(template) # {}
    /\ DOMAIN rinput.text_colors \ TextKeysOf(template) # {}
    /\ TextKeysOf(template) \ DOMAIN rinput.texts # {}
    /\ \E i \in 1..Len(canvas) : canvas[i].op = "text" /\ canvas[i].text = <<>>

\* C9: a background image that fails to decode is never fatal, be it the
\* background_path override or the template's kind=image file: apply_background
\* does not raise, and returns the base canvas without an overlay.
C9_BackgroundNeverFatal ==
    /\ err # "background"
    /\ (pc # "start" /\ pc \notin {"batch_start", "next_row", "batch_done", "batch_aborted"}
        /\ ~(Truthy(rinput.background_path) /\ ImageOpens(rinput.background_path))
        /\ ~(template.background.kind = "image" /\ ImageOpens(template.background.value)))
       => \A i \in 1..Len(canvas) : canvas[i].op # "background"

\* the sources of the background images composited onto the canvas
BackgroundSources == {canvas[i].src : i \in {j \in 1..Len(canvas) : canvas[j].op = "background"}}
OverrideLoadable == Truthy(rinput.background_path) /\ ImageOpens(rinput.background_path)

\* C10: apply_background composites at most one background image: the override
\* if it is set and loadable; else the template's kind=image file if that file
\* exists; else none.
C10_OneBackgroundImage ==
    (pc # "start" /\ pc \notin {"batch_start", "next_row", "batch_done", "batch_aborted"}) =>
        /\ Cardinality({j \in 1..Len(canvas) : canvas[j].op = "background"}) <= 1
        /\ BackgroundSources =
             IF OverrideLoadable THEN {rinput.background_path}
             ELSE IF /\ template.background.kind = "image"
                     /\ Truthy(template.background.value)
                     /\ Exists(template.background.value)
                  THEN {template.background.value}
                  ELSE {}

\* the lines wrap_lines has committed so far, and at the end the ones it returns
WrapLines == IF ret.pc = "returned" THEN ret.result ELSE ret.lines

\* the line holds one word only
SingleWord(line) == \A k \in 1..Len(line) : line[k] # " "

\* C11 as stated: every line the word-wrap produces measures at most the wrap
\* width, also when a single word is wider than the wrap width.
C11_EveryLineFits ==
    \A k \in 1..Len(WrapLines) :
        Measure(WrapLines[k]) <= WrapWidth(call.max_width, call.w)

\* C11 amended: every line the word-wrap produces measures at most the wrap
\* width or consists of a single word (a word wider than the wrap width is
\* put on a line of its own and is not broken).
C11_LineFitsOrSingleWord ==
    \A k \in 1..Len(WrapLines) :
        \/ Measure(WrapLines[k]) <= WrapWidth(call.max_width, call.w)
        \/ SingleWord(WrapLines[k])

C11_Witness ==
    /\ ret.pc = "returned"
    /\ \E k \in 1..Len(ret.result) : ~SingleWord(ret.result[k])
    /\ \E k \in 1..Len(ret.result) :
           Measure(ret.result[k]) > WrapWidth(call.max_width, call.w)

FitReturned(fit) == call.fn = "_resize_fit" /\ call.fit = fit /\ ret.pc = "returned"

\* C15: _resize_fit with fit=cover returns an image of exactly the target size
\* and the crop window lies inside the scaled image, so that no pixel of the
\* result comes from outside the source.
C15_CoverCropInside ==
    FitReturned("cover") =>
        /\ ret.size = <<call.tw, call.th>>
        /\ 0 <= ret.at[1] /\ ret.at[1] + call.tw <= ret.resized[1]
        /\ 0 <= ret.at[2] /\ ret.at[2] + call.th <= ret.resized[2]

\* the exact scale of fit=contain, min(tw / iw, th / ih), as a fraction
ContainScale ==
    IF call.tw * call.ih <= call.th * call.iw
    THEN <<call.tw, call.iw>> ELSE <<call.th, call.ih>>

\* |got - length * scale| < 1
WithinOnePixel(got, length, scale) ==
    /\ got * scale[2] - length * scale[1] < scale[2]
    /\ length * scale[1] - got * scale[2] < scale[2]

\* C16: _resize_fit with fit=contain returns a canvas of exactly the target
\* size, the scaled content lies fully inside it at non-negative offsets, the
\* scaled size is less than one pixel per axis away from the exact
\* aspect-preserving size, and the canvas is transparent outside the content.
C16_ContainInside ==
    FitReturned("contain") =>
        /\ ret.size = <<call.tw, call.th>>
        /\ ret.resized[1] <= call.tw /\ ret.resized[2] <= call.th
        /\ ret.at[1] >= 0 /\ ret.at[2] >= 0
        /\ ret.at[1] + ret.resized[1] <= call.tw
        /\ ret.at[2] + ret.resized[2] <= call.th
        /\ WithinOnePixel(ret.resized[1], call.iw, ContainScale)
        /\ WithinOnePixel(ret.resized[2], call.ih, ContainScale)
        /\ ret.fill = "transparent"

GradientReturned == call.fn = "_draw_gradient" /\ ret.pc = "returned"

\* c1 + (c2 - c1) * (p - p1) / (p2 - p1), truncated
LinearInterpolation(c1, c2, p, p1, p2) ==
    (c1 * (p2 - p1) + (c2 - c1) * (p - p1)) \div (p2 - p1)

\* C12: for a 2-stop gradient every channel of every pixel between the two
\* stop positions equals the truncated linear interpolation of the two stop
\* values, for decreasing channels as well as for increasing ones.
C12_LinearInterpolation ==
    (GradientReturned /\ ret.img = "fromarray" /\ Len(ret.stops) = 2) =>
        LET p1 == ret.stops[1].position
            p2 == ret.stops[2].position
            c1 == HexToRgba(ret.stops[1].color, call.opacity)
            c2 == HexToRgba(ret.stops[2].color, call.opacity)
        IN  \A p \in Positions, ch \in 1..4 :
                (p1 < p2 /\ p1 <= p /\ p <= p2) =>
                    ret.arr[p][ch] = LinearInterpolation(c1[ch], c2[ch], p, p1, p2)

\* C13: with fewer than 2 stops (None, empty or a single stop) _draw_gradient
\* returns the canvas it was given, unmodified, so the background stays the
\* fully transparent canvas apply_background initialised.
C13_FewStopsKeepCanvas ==
    (GradientReturned /\ (call.gradient_stops = NoneStops \/ Len(call.gradient_stops) < 2)) =>
        ret.img = "canvas" /\ ret.arr = Transparent

C13_Witness ==
    /\ GradientReturned
    /\ call.gradient_stops # NoneStops
    /\ Len(call.gradient_stops) = 1
    /\ call.gradient_stops[1].position = 2
    /\ ret.arr = Transparent

\* the stops are in ascending order of position
Ascending(stops) ==
    \A j \in 1..(Len(stops) - 1) : stops[j].position <= stops[j + 1].position

\* the number of times stop x occurs in the list
Occurrences(stops, x) == Cardinality({j \in 1..Len(stops) : stops[j] = x})

\* C14: _draw_gradient orders the stops by position ascending whatever their
\* order in the config; every pixel below the first stop position takes exactly
\* the first stop's colour and every pixel above the last stop position takes
\* exactly the last stop's colour.
C14_SortedStopsAndEnds ==
    (GradientReturned /\ ret.img = "fromarray") =>
        LET n == Len(ret.stops)
        IN  /\ Ascending(ret.stops)
            /\ n = Len(call.gradient_stops)
            /\ \A j \in 1..n : Occurrences(ret.stops, ret.stops[j])
                               = Occurrences(call.gradient_stops, ret.stops[j])
            /\ \A p \in Positions :
                /\ p < ret.stops[1].position =>
                       ret.arr[p] = HexToRgba(ret.stops[1].color, call.opacity)
                /\ p > ret.stops[n].position =>
                       ret.arr[p] = HexToRgba(ret.stops[n].color, call.opacity)

C14_Witness ==
    /\ GradientReturned
    /\ ret.img = "fromarray"
    /\ ~Ascending(call.gradient_stops)
    /\ ret.stops[1].position > 0
    /\ ret.stops[Len(ret.stops)].position < Quarters
    /\ ret.stops[1].color # ret.stops[Len(ret.stops)].color

\* C17: the raster build_preview returns has its longer edge <= max_size; when
\* max(w, h) <= max_size the call returns the composed raster itself, at the
\* template size (it is never upscaled).
C17_PreviewWithinMaxSize ==
    call.fn = "build_preview" =>
        /\ ret.pc = "returned" => Max(ret.size[1], ret.size[2]) <= call.max_size
        /\ (Max(call.w, call.h) <= call.max_size /\ ret.pc \in {"returned", "raised"}) =>
               /\ ret.pc = "returned"
               /\ ret.img = "composed"
               /\ ret.size = <<call.w, call.h>>

C17_Witness ==
    /\ call.fn = "build_preview"
    /\ ret.pc = "returned"
    /\ ret.img = "resized"
    /\ call.w > call.max_size
    /\ ret.size[1] = call.max_size
    /\ ret.size[2] >= 1

InRegistry ==
    /\ call.fn = "load_template_from_json"
    /\ ret.pc \in {"import_json", "add_from_dict", "load_dir", "save_template"}

\* the keys are non-empty and pairwise distinct, letter case ignored
KeysWellFormed(items) ==
    /\ \A i \in 1..Len(items) : items[i].key # <<>>
    /\ \A i, j \in 1..Len(items) :
           i # j => Lower(items[i].key) # Lower(items[j].key)

\* C18: every template that reaches the registry, through the loaders or the
\* editor's save, has non-empty and case-insensitively distinct slot keys and
\* non-empty and case-insensitively distinct text keys.
C18_KeysUniqueNonEmpty ==
    InRegistry => KeysWellFormed(ret.slots) /\ KeysWellFormed(ret.texts)

\* the radius value is malformed: a string, an array of a length other than 4,
\* or an array of 4 with a non-numeric item
Malformed(radius_raw) ==
    \/ radius_raw.t = "str"
    \/ /\ radius_raw.t = "list"
       /\ \/ Len(radius_raw.items) # 4
          \/ \E k \in 1..Len(radius_raw.items) : ~IsNumeric(radius_raw.items[k])

\* C19: a slot with a malformed radius is still loaded, with radius 0 and no
\* radii, and a warning is logged for it.
C19_MalformedRadiusWarned ==
    (call.fn = "load_template_from_json" /\ ret.pc = "loaded") =>
        /\ Len(ret.slots) = Len(call.slots)
        /\ \A i \in 1..Len(call.slots) :
               Malformed(call.slots[i].radius) =>
                   /\ ret.slots[i].radius = 0
                   /\ ret.slots[i].radii = <<>>
                   /\ ret.slots[i].warned

\* the cells of call.row whose column is prefix, key, suffix, with prefix and
\* suffix in any letter case and the key as it is written
Named(prefix, key, suffix) ==
    LET n == Len(prefix) + Len(key)
    IN  {i \in 1..Len(call.row) :
            LET col == call.row[i].col
            IN  /\ Len(col) = n + Len(suffix)
                /\ Lower(SubSeq(col, 1, Len(prefix))) = prefix
                /\ SubSeq(col, Len(prefix) + 1, n) = key
                /\ Lower(SubSeq(col, n + 1, Len(col))) = suffix}

\* the stripped cell of the last of those columns, empty when there is none
CellOf(cells) ==
    IF cells = {} THEN <<>>
    ELSE Strip(call.row[CHOOSE i \in cells : \A j \in cells : j <= i].raw)

\* the columns bind key in the dict to their cell
Binds(cells, dict, key) ==
    cells # {} => key \in DOMAIN dict /\ dict[key] = CellOf(cells)

\* C20: render_input_from_row maps each column text.<key> to texts[key],
\* text.<key>.color to text_colors[key] and slot.<key> to slot_paths[key], the
\* prefix in any letter case and the key as written; it reads template_key,
\* output_name and background_path in any letter case, raises exactly when
\* template_key or output_name is absent or blank, and turns an absent or blank
\* background_path into None.
C20_RowColumnsMapped ==
    LET template_key == CellOf(Named(<<"t", "e", "m", "p", "l", "a", "t", "e", "_", "k", "e", "y">>, <<>>, <<>>))
        output_name == CellOf(Named(<<"o", "u", "t", "p", "u", "t", "_", "n", "a", "m", "e">>, <<>>, <<>>))
        background_path == CellOf(Named(<<"b", "a", "c", "k", "g", "r", "o", "u", "n", "d", "_", "p", "a", "t", "h">>, <<>>, <<>>))
    IN  (call.fn = "render_input_from_row" /\ ret.pc \in {"raised", "returned"}) =>
            /\ ret.pc = "raised" <=> (template_key = <<>> \/ output_name = <<>>)
            /\ ret.pc = "returned" =>
                /\ ret.ri.template_key = template_key
                /\ ret.ri.output_name = output_name
                /\ ret.ri.background_path =
                       IF background_path = <<>> THEN None ELSE background_path
                /\ \A key \in {<<"a">>, <<"A">>} :
                    /\ Binds(Named(<<"t", "e", "x", "t", ".">>, key, <<>>), ret.ri.texts, key)
                    /\ Binds(Named(<<"t", "e", "x", "t", ".">>, key, <<".", "c", "o", "l", "o", "r">>), ret.ri.text_colors, key)
                    /\ Binds(Named(<<"s", "l", "o", "t", ".">>, key, <<>>), ret.ri.slot_paths, key)

C20_Witness ==
    /\ call.fn = "render_input_from_row"
    /\ ret.pc = "returned"
    /\ Named(<<"t", "e", "x", "t", ".">>, <<"A">>, <<>>) # {}
    /\ Named(<<"t", "e", "x", "t", ".">>, <<"A">>, <<".", "c", "o", "l", "o", "r">>) # {}
    /\ Named(<<"t", "e", "m", "p", "l", "a", "t", "e", "_", "k", "e", "y">>, <<>>, <<>>) # {}
    /\ <<"t", "e", "m", "p", "l", "a", "t", "e", "_", "k", "e", "y">> \notin {call.row[i].col : i \in 1..Len(call.row)}
    /\ ret.ri.background_path = None

WrapReturned == call.fn = "wrap_lines" /\ ret.pc = "returned"

\* C23: for an empty or whitespace-only content the word-wrap yields exactly
\* one line, the empty string; for every content the result is a non-empty
\* list of lines.
C23_EmptyContentOneEmptyLine ==
    WrapReturned =>
        /\ Len(ret.result) >= 1
        /\ (\A k \in 1..Len(call.content) : call.content[k] = " ") =>
               ret.result = << <<>> >>

C23_Witness ==
    /\ WrapReturned
    /\ Len(call.content) >= 2
    /\ \A k \in 1..Len(call.content) : call.content[k] = " "
    /\ ret.result = << <<>> >>

\* " ".join(parts)
RECURSIVE JoinWithSpaces(_)
JoinWithSpaces(parts) ==
    IF parts = <<>> THEN <<>>
    ELSE IF Len(parts) = 1 THEN parts[1]
    ELSE parts[1] \o <<" ">> \o JoinWithSpaces(Tail(parts))

\* C29: the word-wrap loses and reorders nothing: the produced lines joined
\* with single spaces are the whitespace-separated words of the content in
\* their order, and no line is empty unless the content has no words.
C29_WrapKeepsWords ==
    WrapReturned =>
        /\ JoinWithSpaces(ret.result) = JoinWithSpaces(Split(call.content))
        /\ Split(call.content) # <<>> =>
               \A k \in 1..Len(ret.result) : ret.result[k] # <<>>

C29_Witness ==
    /\ WrapReturned
    /\ Len(ret.result) = 3
    /\ Len(Split(call.content)) = 3
    /\ call.content[1] = " "

GradientPainted ==
    GradientReturned /\ ret.img = "fromarray" /\ Len(call.gradient_stops) >= 2

\* C26: for a gradient of at least 2 stops _draw_gradient assigns a colour to
\* every pixel, also when stops share a position: no pixel keeps the initial
\* all-zero transparent value.
C26_EveryPixelPainted ==
    GradientPainted => \A p \in Positions : ret.arr[p] # <<0, 0, 0, 0>>

\* C28: the raster build_preview returns has width >= 1 and height >= 1, and
\* the downscale never fails on an empty side.
C28_PreviewNotEmpty ==
    call.fn = "build_preview" =>
        /\ ret.pc # "raised"
        /\ ret.pc = "returned" => ret.size[1] >= 1 /\ ret.size[2] >= 1

\* C21: a square slot turned by rotation = 90 alone gets bounds of its own
\* size, out_w = w and out_h = h, and its corners land, to the pixel, on the
\* corners of these bounds one further clockwise: top-left on top-right,
\* top-right on bottom-right, bottom-right on bottom-left, bottom-left on
\* top-left (the shifted quad is kept at twice the size)
SquareQuarterTurn ==
    /\ call.fn = "place_slot"
    /\ ret.pc = "returned"
    /\ ret.drawn
    /\ call.w = call.h
    /\ call.rotation = <<90>>
    /\ OrZero(call.rotate_x) = 0
    /\ OrZero(call.rotate_y) = 0

C21_QuarterTurnKeepsSquare ==
    SquareQuarterTurn =>
        /\ ret.size = <<call.w, call.h>>
        /\ [k \in 1..4 |-> <<Round(ret.dst_quad_shifted_hi[k][1]),
                              Round(ret.dst_quad_shifted_hi[k][2])>>]
               = [k \in 1..4 |-> << <<2 * call.w, 0>>, <<2 * call.w, 2 * call.h>>,
                                   <<0, 2 * call.h>>, <<0, 0>> >>[k]]

C21_Witness ==
    /\ SquareQuarterTurn
    /\ call.w > 1
    /\ \E k \in 1..4 : ret.quad.out[k][1].neg

\* C22: _project_slot_quad uses rotate_x and rotate_y brought into -89..89
\* (an angle within the range is used as it is, one beyond it becomes the
\* nearer end), uses rotate_z as it is, and takes a missing angle for 0
ProjectReturned == call.fn = "_project_slot_quad" /\ ret.pc = "returned"

C22_TiltClamped ==
    ProjectReturned =>
        LET given(angle) == IF angle = <<>> THEN 0 ELSE angle[1]
            clamped(v) == IF v > 89 THEN 89 ELSE IF v < -89 THEN -89 ELSE v
        IN  /\ ret.quad.rx = clamped(given(call.rotate_x))
            /\ ret.quad.ry = clamped(given(call.rotate_y))
            /\ ret.quad.rz = given(call.rotate_z)
            /\ ret.quad.rx \in -89..89
            /\ ret.quad.ry \in -89..89

C22_Witness ==
    /\ ProjectReturned
    /\ call.rotate_x = <<120>> /\ ret.quad.rx = 89
    /\ call.rotate_y = <<>> /\ ret.quad.ry = 0
    /\ call.rotate_z = <<180>> /\ ret.quad.rz = 180

\* C25: place_slot fits the content into (max(1, w - 2 * padding),
\* max(1, h - 2 * padding)), at least one pixel each way whatever the padding,
\* and composes it at (padding, padding) into a layer of the size (w, h) of
\* the slot
LayerBuilt == call.fn = "place_slot" /\ ret.pc \in {"layer", "projected"}

C25_PaddedTargetInLayer ==
    LayerBuilt =>
        /\ ret.slot_layer.rounded[1] = (IF call.w - 2 * call.padding > 1
                                        THEN call.w - 2 * call.padding ELSE 1)
        /\ ret.slot_layer.rounded[2] = (IF call.h - 2 * call.padding > 1
                                        THEN call.h - 2 * call.padding ELSE 1)
        /\ ret.slot_layer.rounded[1] >= 1 /\ ret.slot_layer.rounded[2] >= 1
        /\ ret.slot_layer.dest = <<call.padding, call.padding>>
        /\ ret.slot_layer.size = <<call.w, call.h>>

C25_Witness ==
    /\ LayerBuilt
    /\ 2 * call.padding >= call.w
    /\ 2 * call.padding < call.h
    /\ ret.slot_layer.rounded = <<1, call.h - 2 * call.padding>>

\* C24: draw_text_block draws every line that wrap_lines returns, line number
\* i (from 0) at the height y + i * floor(line_height * line_spacing), those
\* below the box (beyond y + h) as well
DrawnSoFar == "line_height" \in DOMAIN call /\ ret.pc = "draw"

\* floor(line_height * line_spacing) of the float product, which is not negative
LineAdvance ==
    FloatTrunc(FloatMulInt(call.line_height,
                           FloatDiv(call.line_spacing[1], call.line_spacing[2])))

C24_EveryLineDrawn ==
    DrawnSoFar =>
        /\ Len(ret.drawn) = ret.n
        /\ \A k \in 1..ret.n :
               /\ ret.drawn[k].line = ret.result[k]
               /\ ret.drawn[k].pos[2] = call.y + (k - 1) * LineAdvance

C24_Witness ==
    /\ DrawnSoFar
    /\ ret.n = Len(ret.result)
    /\ ret.n >= 3
    /\ LineAdvance >= 1
    /\ ret.drawn[ret.n].pos[2] > call.y + call.h

\* C27: a template written by save_template and read back is the template
\* that was saved: every slot has its key, radius and per-corner radii again,
\* every text its key
C27_ReloadIsLossless ==
    (call.fn = "load_template_from_json" /\ ret.pc = "reloaded") =>
        /\ Len(ret.reloaded.slots) = Len(ret.slots)
        /\ \A i \in 1..Len(ret.slots) :
               /\ ret.reloaded.slots[i].key = ret.slots[i].key
               /\ ret.reloaded.slots[i].radius = ret.slots[i].radius
               /\ ret.reloaded.slots[i].radii = ret.slots[i].radii
        /\ ret.reloaded.texts = ret.texts

\* C30: whatever the editor has done, selected is None or names a position
\* that exists in its list; a _delete_selected that found a selection has
\* removed exactly the selected element and left nothing selected; after
\* _normalize_keys the keys of the slots, and the keys of the texts, are
\* non-empty and differ from each other also when case is ignored
EditorOpen == call.fn = "TemplateEditor"

C30_SelectionAndKeys ==
    EditorOpen =>
        LET Items(kind) == IF kind = "slot" THEN ret.slots ELSE ret.texts
            Without(items, at) ==
                [k \in 1..(Len(items) - 1) |-> IF k < at THEN items[k] ELSE items[k + 1]]
            Distinct(items) ==
                /\ \A k \in 1..Len(items) : items[k].key # <<>>
                /\ \A j, k \in 1..Len(items) :
                       j # k => Lower(items[j].key) # Lower(items[k].key)
        IN  /\ \/ ret.selected = <<>>
               \/ /\ ret.selected[1] \in {"slot", "text"}
                  /\ ret.selected[2] \in 0..(Len(Items(ret.selected[1])) - 1)
            /\ ret.op = "_delete_selected" =>
                   /\ ret.selected = <<>>
                   /\ ret.slots = IF ret.before[3][1] = "slot"
                                  THEN Without(ret.before[1], ret.before[3][2] + 1)
                                  ELSE ret.before[1]
                   /\ ret.texts = IF ret.before[3][1] = "text"
                                  THEN Without(ret.before[2], ret.before[3][2] + 1)
                                  ELSE ret.before[2]
            /\ ret.op = "_normalize_keys" => Distinct(ret.slots) /\ Distinct(ret.texts)

C30_Witness ==
    /\ EditorOpen
    /\ ret.op = "_delete_selected"
    /\ ret.before[3] = <<"slot", 0>>
    /\ Len(ret.before[1]) = 2
    /\ ret.before[1][1] # ret.before[1][2]

====
